---- MODULE Spec2Model ----
(***************************************************************************)
(* A model of the fontconfig wrapper crate: the process-wide               *)
(* initialization counter behind FontConfig::default / FontConfig::drop,   *)
(* the translation of foreign result codes, typed attribute add / get on a *)
(* pattern, and the character-set page/bit iterator and set algebra.       *)
(*                                                                         *)
(* Each part has its own specification (SpecConfig, SpecPattern,           *)
(* SpecCharSet); the variables of the other parts keep their initial value.*)
(***************************************************************************)
EXTENDS Integers, Sequences, FiniteSets, TLC

VARIABLES
    \* ---- configuration lifecycle (fontconfig/src/lib.rs) ----
    counter,        \* the usize inside INITIALIZED
    mutexHolder,    \* the thread that holds the INITIALIZED mutex, or NoThread
    poisoned,       \* the mutex's poison flag (a guard was dropped in a panic)
    pc,             \* pc[t]: where thread t is inside default() / drop()
    handles,        \* handles[t]: FontConfig values thread t owns
    libInit,        \* the foreign library's "initialized" state
    fcInitCalls,    \* number of FcInit invocations so far
    fcFiniCalls,    \* number of FcFini invocations so far
    initFailed,     \* number of FcInit invocations that returned FcFalse
    acquired,       \* number of default() calls that returned a handle
    attempts,       \* number of default() calls started
    drops,          \* number of drop() calls started
    aborted,        \* the process aborted (a panic while unwinding)
    \* ---- patterns (fontconfig/src/pattern.rs, fontconfig/src/lib.rs) ----
    pat,            \* the foreign FcPattern: object name -> sequence of FcValue
    added,          \* added[a]: the values Pattern::add stored under a, in order
    typedOnly,      \* the pattern was changed by Pattern::add only since new()
    patOp,          \* the last wrapper call on the pattern and what it returned
    \* ---- character sets (src/charset.rs) ----
    csA,            \* an OwnedCharSet: the foreign set's leaves (pages) and members
    csB,            \* a second OwnedCharSet
    csOp,           \* the last set-algebra call and the OwnedCharSet it returned
    it,             \* the Iter over csA: codepoint, next, map, i, bit (or NoIter)
    yielded,        \* what the calls of Iter::next() returned so far, in order
    \* ---- language sets (src/langset.rs) ----
    lsA,            \* a LangSet: the language tags the foreign set holds
    lsB,            \* a second LangSet
    lsOp,           \* the last LangSet call and what it returned
    \* ---- font sets (fontconfig/src/fontset.rs) ----
    patCount,       \* number of foreign FcPattern handles allocated so far
    fsOwned,        \* the handles held by live OwnedPattern values
    fsDestroys,     \* fsDestroys[h]: times handle h was released to its end
    fontset,        \* the FontSet: its state and the foreign nfont / fonts
    pushedSeq,      \* the handles pushed onto the current FontSet, in push order
    fsIt,           \* the Iter / IterMut over the FontSet: kind and index
    fsYield,        \* what the calls of next() returned in the current pass
    fsPasses,       \* iteration passes started on the current FontSet
    fsRefs,         \* the handles the caller holds a &'pat (mut) Pattern to
    fsOp,           \* the last FontSet call and what it returned
    fsPanicked,     \* an assertion failed: the caller is unwinding
    \* ---- object sets (src/objectset.rs) ----
    objset,         \* the ObjectSet: the object names the foreign set holds
    osOp,           \* the last ObjectSet call and what it returned
    \* ---- string sets (fontconfig/src/stringset.rs) ----
    strset,         \* the foreign FcStrSet: its strings, in the cursor's order
    ssIt,           \* the StringSetIter: the foreign FcStrList cursor position
    ssYield,        \* what the calls of next() returned so far, in order
    \* ---- the fc-list program (fontconfig/src/bin/fc-list.rs, examples/fc-list/main.rs) ----
    flOpts,         \* the parsed command line
    flPc,           \* where main is: "start", "parsed", "ready", "loop", "done"
    flOs,           \* the object set handed to font_list: "none", "elements", "empty", "default"
    flFs,           \* the font set font_list returned, and how many fonts the loop has visited
    flOut,          \* the fonts printed on the standard output
    flExit,         \* the exit status of the process (-1 while it runs)
    \* ---- the fc-query program (examples/fc-query/fc-query.rs) ----
    fqOpts,         \* the parsed command line; each file is TRUE when it is a font file FreeType can query
    fqPc,           \* where main is: "start", "parsed", "loop", "done"
    fqIdx,          \* how many files the loop has got past
    fqExit,         \* the exit status of the process (-1 while it runs)
    \* ---- the fc-match program (fontconfig/src/bin/fc-match.rs) ----
    fmOpts,         \* the parsed command line
    fmPc,           \* where main is: "start", "parsed", "ready", "loop", "done"
    fmOs,           \* the object set built from the elements: [some, objects]
    fmSet,          \* fontset: the matched patterns, each the set of its objects
    fmIdx,          \* how many fonts the printing loop has got past
    fmOut,          \* the patterns printed on the standard output, in order
    fmExit,         \* the exit status of the process (-1 while it runs)
    \* ---- a call of Iter::next, pass by pass (src/charset.rs) ----
    itPc            \* where the call is: "idle" (no call), "top" (the head of the loop), "scan" (the while loop)

cfgVars == <<counter, mutexHolder, poisoned, pc, handles, libInit,
             fcInitCalls, fcFiniCalls, initFailed, acquired, attempts, drops, aborted>>

patVars == <<pat, added, typedOnly, patOp>>

csVars == <<csA, csB, csOp, it, yielded>>

lsVars == <<lsA, lsB, lsOp>>

fsVars == <<patCount, fsOwned, fsDestroys, fontset, pushedSeq, fsIt, fsYield,
            fsPasses, fsRefs, fsOp, fsPanicked>>

osVars == <<objset, osOp>>

ssVars == <<strset, ssIt, ssYield>>

flVars == <<flOpts, flPc, flOs, flFs, flOut, flExit>>

fqVars == <<fqOpts, fqPc, fqIdx, fqExit>>

fmVars == <<fmOpts, fmPc, fmOs, fmSet, fmIdx, fmOut, fmExit>>

lpVars == <<itPc>>

vars == <<cfgVars, patVars, csVars, lsVars, fsVars, osVars, ssVars, flVars, fqVars, fmVars, lpVars>>

notConfig == <<patVars, csVars, lsVars, fsVars, osVars, ssVars, flVars, fqVars, fmVars, lpVars>>
notPattern == <<cfgVars, csVars, lsVars, fsVars, osVars, ssVars, flVars, fqVars, fmVars, lpVars>>
notCharSet == <<cfgVars, patVars, lsVars, fsVars, osVars, ssVars, flVars, fqVars, fmVars, lpVars>>
notLangSet == <<cfgVars, patVars, csVars, fsVars, osVars, ssVars, flVars, fqVars, fmVars, lpVars>>
notFontSet == <<cfgVars, patVars, csVars, lsVars, osVars, ssVars, flVars, fqVars, fmVars, lpVars>>
notObjectSet == <<cfgVars, patVars, csVars, lsVars, fsVars, ssVars, flVars, fqVars, fmVars, lpVars>>
notStringSet == <<cfgVars, patVars, csVars, lsVars, fsVars, osVars, flVars, fqVars, fmVars, lpVars>>
notFcList == <<cfgVars, patVars, csVars, lsVars, fsVars, osVars, ssVars, fqVars, fmVars, lpVars>>
notFcQuery == <<cfgVars, patVars, csVars, lsVars, fsVars, osVars, ssVars, flVars, fmVars, lpVars>>
notFcMatch == <<cfgVars, patVars, csVars, lsVars, fsVars, osVars, ssVars, flVars, fqVars, lpVars>>
notCharSetLoop == <<cfgVars, patVars, lsVars, fsVars, osVars, ssVars, flVars, fqVars, fmVars>>

-----------------------------------------------------------------------------
(* Bounds of the model *)

NThreads == 2
MaxAcquire == 3
MaxAdds == 2
MaxSetSize == 3
MaxExtraCalls == 2
MaxLangs == 2
MaxPatterns == 3
MaxPasses == 2
MaxObjects == 2
MaxStrings == 3
MaxFonts == 2
MaxFiles == 3

-----------------------------------------------------------------------------
(* Program constants *)

FcTrue == 1
FcFalse == 0

FcTypeInteger == 1
FcTypeDouble == 2
FcTypeString == 3
FcTypeBool == 4
FcTypeMatrix == 5
FcTypeCharSet == 6
FcTypeLangSet == 8

FcResultMatch == 0
FcResultNoMatch == 1
FcResultTypeMismatch == 2
FcResultNoId == 3
FcResultOutOfMemory == 4

FcMatchPattern == 0
FcMatchFont == 1
FcMatchScan == 2

FcLangEqual == 0
FcLangDifferentCountry == 1
FcLangDifferentTerritory == 1
FcLangDifferentLang == 2

FC_CHARSET_MAP_SIZE == 8
\* u32::MAX: the all-ones 32-bit word, written as it reads in two's complement
FC_CHARSET_DONE == -1

-----------------------------------------------------------------------------
(* Configuration lifecycle: INITIALIZED, FontConfig::default, Drop          *)

Threads == 1..NThreads
NoThread == 0

RECURSIVE SumOver(_, _)
SumOver(f, S) ==
    IF S = {} THEN 0
    ELSE LET x == CHOOSE y \in S : TRUE IN f[x] + SumOver(f, S \ {x})

DefaultPcs == {"d_lock", "d_init", "d_inc"}
DropPcs == {"r_lock", "r_check", "r_fini", "r_nofini", "r_unlock"}
\* the positions at which the thread holds the MutexGuard
CriticalPcs == {"d_init", "d_inc", "r_check", "r_fini", "r_nofini", "r_unlock"}

\* A FontConfig value is live from the return of default() to the end of its drop().
LiveHandles ==
    SumOver(handles, Threads) + Cardinality({t \in Threads : pc[t] \in DropPcs})

\* static INITIALIZED = Lazy::new(|| Arc::new(Mutex::new(0)))
ConfigInitial ==
    /\ counter = 0
    /\ mutexHolder = NoThread
    /\ poisoned = FALSE
    /\ pc = [t \in Threads |-> "idle"]
    /\ handles = [t \in Threads |-> 0]
    /\ libInit = FALSE
    /\ fcInitCalls = 0
    /\ fcFiniCalls = 0
    /\ initFailed = 0
    /\ acquired = 0
    /\ attempts = 0
    /\ drops = 0
    /\ aborted = FALSE

\* Mutex::lock blocks until no thread holds the mutex.
MutexFreeAlways == TRUE
MutexFree == mutexHolder = NoThread

\* A panic of thread t.  Every panic of this model leaves the mutex poisoned, so
\* the FontConfig values the thread still owns are dropped during unwinding, their
\* drop() panics on lock().unwrap(), and a panic while unwinding aborts the process.
Panic(t) ==
    IF handles[t] > 0
    THEN /\ aborted' = TRUE
         /\ pc' = [pc EXCEPT ![t] = "panicked"]
    ELSE /\ pc' = [pc EXCEPT ![t] = "panicked"]
         /\ UNCHANGED aborted

\* FcInit(): a no-op returning FcTrue when the library is already initialized;
\* otherwise it loads the configuration and may fail.
FcInitResults == IF libInit THEN {FcTrue} ELSE {FcTrue, FcFalse}

\* a call of FontConfig::default() starts
AcquireBegin(t) ==
    /\ ~aborted
    /\ UNCHANGED notConfig
    /\ pc[t] = "idle"
    /\ attempts < MaxAcquire
    /\ attempts' = attempts + 1
    /\ pc' = [pc EXCEPT ![t] = "d_lock"]
    /\ UNCHANGED <<counter, mutexHolder, poisoned, handles, libInit,
                   fcInitCalls, fcFiniCalls, initFailed, acquired, drops, aborted>>

\* let mut guard = INITIALIZED.lock().unwrap();
AcquireLock(t) ==
    /\ ~aborted
    /\ UNCHANGED notConfig
    /\ pc[t] = "d_lock"
    /\ MutexFree
    /\ IF poisoned
       THEN /\ Panic(t)
            /\ UNCHANGED mutexHolder
       ELSE /\ mutexHolder' = t
            /\ pc' = [pc EXCEPT ![t] = "d_init"]
            /\ UNCHANGED aborted
    /\ UNCHANGED <<counter, poisoned, handles, libInit, fcInitCalls,
                   fcFiniCalls, initFailed, acquired, attempts, drops>>

\* a mutant: FcInit is called by the first acquisition only
AcquireInitOnce(t) ==
    /\ ~aborted
    /\ UNCHANGED notConfig
    /\ pc[t] = "d_init"
    /\ IF counter = 0
       THEN /\ fcInitCalls' = fcInitCalls + 1
            /\ libInit' = TRUE
       ELSE UNCHANGED <<fcInitCalls, libInit>>
    /\ pc' = [pc EXCEPT ![t] = "d_inc"]
    /\ UNCHANGED <<counter, mutexHolder, poisoned, handles, fcFiniCalls,
                   initFailed, acquired, attempts, drops, aborted>>

\* assert_eq!(FcTrue, unsafe { ffi_dispatch!(LIB, FcInit,) });
AcquireInit(t) ==
    /\ ~aborted
    /\ UNCHANGED notConfig
    /\ pc[t] = "d_init"
    /\ fcInitCalls' = fcInitCalls + 1
    /\ \E res \in FcInitResults :
         IF res = FcTrue
         THEN /\ libInit' = TRUE
              /\ pc' = [pc EXCEPT ![t] = "d_inc"]
              /\ UNCHANGED <<mutexHolder, poisoned, initFailed, aborted>>
         ELSE \* the assertion panics; the guard is dropped while panicking
              /\ initFailed' = initFailed + 1
              /\ poisoned' = TRUE
              /\ mutexHolder' = NoThread
              /\ Panic(t)
              /\ UNCHANGED libInit
    /\ UNCHANGED <<counter, handles, fcFiniCalls, acquired, attempts, drops>>

\* a mutant: the acquisition returns its handle without counting it
AcquireIncUncounted(t) ==
    /\ ~aborted
    /\ UNCHANGED notConfig
    /\ pc[t] = "d_inc"
    /\ mutexHolder' = NoThread
    /\ handles' = [handles EXCEPT ![t] = @ + 1]
    /\ acquired' = acquired + 1
    /\ pc' = [pc EXCEPT ![t] = "idle"]
    /\ UNCHANGED <<counter, poisoned, libInit, fcInitCalls, fcFiniCalls, initFailed,
                   attempts, drops, aborted>>

\* *guard += 1; FontConfig { cfg: None }  -- the guard is dropped on return
AcquireInc(t) ==
    /\ ~aborted
    /\ UNCHANGED notConfig
    /\ pc[t] = "d_inc"
    /\ counter' = counter + 1
    /\ mutexHolder' = NoThread
    /\ handles' = [handles EXCEPT ![t] = @ + 1]
    /\ acquired' = acquired + 1
    /\ pc' = [pc EXCEPT ![t] = "idle"]
    /\ UNCHANGED <<poisoned, libInit, fcInitCalls, fcFiniCalls, initFailed,
                   attempts, drops, aborted>>

\* a FontConfig value of thread t goes out of scope: drop() starts
DropBegin(t) ==
    /\ ~aborted
    /\ UNCHANGED notConfig
    /\ pc[t] = "idle"
    /\ handles[t] > 0
    /\ handles' = [handles EXCEPT ![t] = @ - 1]
    /\ pc' = [pc EXCEPT ![t] = "r_lock"]
    /\ drops' = drops + 1
    /\ UNCHANGED <<counter, mutexHolder, poisoned, libInit, fcInitCalls,
                   fcFiniCalls, initFailed, acquired, attempts, aborted>>

\* let guard = INITIALIZED.lock().unwrap();
DropLock(t) ==
    /\ ~aborted
    /\ UNCHANGED notConfig
    /\ pc[t] = "r_lock"
    /\ MutexFree
    /\ IF poisoned
       THEN /\ Panic(t)
            /\ UNCHANGED mutexHolder
       ELSE /\ mutexHolder' = t
            /\ pc' = [pc EXCEPT ![t] = "r_check"]
            /\ UNCHANGED aborted
    /\ UNCHANGED <<counter, poisoned, handles, libInit, fcInitCalls,
                   fcFiniCalls, initFailed, acquired, attempts, drops>>

\* a mutant: teardown when one other handle remains
TeardownDueOffByOne(c) == c - 1 = 1
\* guard.checked_sub(1).unwrap() == 0
TeardownDue(c) == c - 1 = 0

\* a mutant: the decremented value is stored back into the counter
CounterAfterDropStored(c) == c - 1
\* drop() binds the guard immutably and never writes through it
CounterAfterDrop(c) == c

\* if guard.checked_sub(1).unwrap() == 0 { ... }
DropCheck(t) ==
    /\ ~aborted
    /\ UNCHANGED notConfig
    /\ pc[t] = "r_check"
    /\ IF counter = 0
       THEN \* checked_sub gives None and unwrap panics, holding the guard
            /\ poisoned' = TRUE
            /\ mutexHolder' = NoThread
            /\ Panic(t)
            /\ UNCHANGED counter
       ELSE /\ pc' = [pc EXCEPT ![t] =
                        IF TeardownDue(counter) THEN "r_fini" ELSE "r_nofini"]
            /\ counter' = CounterAfterDrop(counter)
            /\ UNCHANGED <<poisoned, mutexHolder, aborted>>
    /\ UNCHANGED <<handles, libInit, fcInitCalls, fcFiniCalls, initFailed,
                   acquired, attempts, drops>>

\* unsafe { ffi_dispatch!(LIB, FcFini,) };
DropFini(t) ==
    /\ ~aborted
    /\ UNCHANGED notConfig
    /\ pc[t] = "r_fini"
    /\ fcFiniCalls' = fcFiniCalls + 1
    /\ libInit' = FALSE
    /\ pc' = [pc EXCEPT ![t] = "r_unlock"]
    /\ UNCHANGED <<counter, mutexHolder, poisoned, handles, fcInitCalls,
                   initFailed, acquired, attempts, drops, aborted>>

\* the end of drop(): the guard goes out of scope
DropUnlock(t) ==
    /\ ~aborted
    /\ UNCHANGED notConfig
    /\ pc[t] \in {"r_unlock", "r_nofini"}
    /\ mutexHolder' = NoThread
    /\ pc' = [pc EXCEPT ![t] = "idle"]
    /\ UNCHANGED <<counter, poisoned, handles, libInit, fcInitCalls,
                   fcFiniCalls, initFailed, acquired, attempts, drops, aborted>>

ConfigStep ==
    \E t \in Threads :
        \/ AcquireBegin(t)
        \/ AcquireLock(t)
        \/ AcquireInit(t)
        \/ AcquireInc(t)
        \/ DropBegin(t)
        \/ DropLock(t)
        \/ DropCheck(t)
        \/ DropFini(t)
        \/ DropUnlock(t)

-----------------------------------------------------------------------------
(* Results: Option, Result and a panic, as tagged records                   *)

None == [tag |-> "None"]
Some(v) == [tag |-> "Some", v |-> v]
Ok == [tag |-> "Ok"]
Err(e) == [tag |-> "Err", err |-> e]
Panicked == [tag |-> "Panic"]

FcResultCodes == {FcResultMatch, FcResultNoMatch, FcResultTypeMismatch,
                  FcResultNoId, FcResultOutOfMemory}

\* a mutant: ok() treats "no such id" as a match
ToResultOkNoIdIsOk(code) ==
    CASE code = FcResultMatch -> Ok
      [] code = FcResultNoMatch -> Err("NoMatch")
      [] code = FcResultTypeMismatch -> Err("TypeMismatch")
      [] code = FcResultNoId -> Ok
      [] OTHER -> Panicked

\* impl ToResult for sys::FcResult: fn ok(&self) -> Result<()>
ToResultOk(code) ==
    CASE code = FcResultMatch -> Ok
      [] code = FcResultNoMatch -> Err("NoMatch")
      [] code = FcResultTypeMismatch -> Err("TypeMismatch")
      [] code = FcResultNoId -> Err("NoId")
      [] OTHER -> Panicked      \* _ => unreachable!()

\* fn opt(&self) -> Option<()> { self.ok().ok() }
ToResultOpt(code) ==
    LET r == ToResultOk(code)
    IN  IF r.tag = "Panic" THEN Panicked
        ELSE IF r.tag = "Ok" THEN Some("unit") ELSE None

\* a mutant: the flag is not looked at
AssertEqFcTrueIgnored(res) == "returned"

\* assert_eq!(res, FcTrue): the call returns, or panics when the flag is not FcTrue
AssertEqFcTrue(res) == IF res = FcTrue THEN "returned" ELSE "panic"

\* the flag of a foreign call that fails or not
FcBoolOf(fails) == IF fails THEN FcFalse ELSE FcTrue

-----------------------------------------------------------------------------
(* Patterns: typed attributes, Pattern::add and Pattern::get                *)

\* attributes::FC_FAMILY, FC_SLANT, FC_SIZE, FC_ANTIALIAS, FC_CHARSET, FC_LANG,
\* and an Attribute<Matrix> named by FC_MATRIX
Attributes == {"family", "slant", "size", "antialias", "matrix", "charset", "lang"}

\* the Rust type V of each Attribute<V>
AttributeType(a) ==
    CASE a = "family" -> "String"
      [] a = "slant" -> "i32"
      [] a = "size" -> "f64"
      [] a = "antialias" -> "bool"
      [] a = "matrix" -> "Matrix"
      [] a = "charset" -> "OwnedCharSet"
      [] a = "lang" -> "LangSet"

\* the values add is called with; a String is its UTF-8 bytes and may hold a NUL
RustValues(ty) ==
    CASE ty = "String" -> {<<97, 98>>, <<97, 0, 98>>}
      [] ty = "i32" -> {7}
      [] ty = "f64" -> {20}
      [] ty = "bool" -> {TRUE, FALSE}
      [] ty = "Matrix" -> {[xx |-> 2, xy |-> 0, yx |-> 0, yy |-> 2]}
      [] ty = "OwnedCharSet" -> {{97}}
      [] ty = "LangSet" -> {{"en"}}

\* the C strings add_string is called with (no NUL; 255 is not valid UTF-8)
CStrValues == {<<255>>}
\* the object names add_string is called with
AddStringNames == {"family", "lang"}

\* a usize index, written hi31 * 2^31 + lo31 with 0 <= lo31 < 2^31
Usize(h, l) == [hi31 |-> h, lo31 |-> l]
IndexInputs == {Usize(0, 0), Usize(0, 1), Usize(1, 0), Usize(2, 0)}

\* index as i32: the low 32 bits, read as two's complement
AsI32(index) ==
    IF index.hi31 % 2 = 1 THEN index.lo31 - 2147483647 - 1 ELSE index.lo31

\* the bytes of a byte string before its first NUL (all of it when there is none)
RECURSIVE UpToNul(_)
UpToNul(bytes) ==
    IF bytes = <<>> \/ Head(bytes) = 0 THEN <<>>
    ELSE <<Head(bytes)>> \o UpToNul(Tail(bytes))

\* CStr::from_bytes_with_nul: the only NUL is the last byte
FromBytesWithNulOk(bytes) ==
    /\ Len(bytes) > 0
    /\ bytes[Len(bytes)] = 0
    /\ Len(UpToNul(bytes)) = Len(bytes) - 1

\* CStr::to_str: the bytes are valid UTF-8 (the model's bytes are ASCII or 255)
IsUtf8(bytes) == \A i \in 1..Len(bytes) : bytes[i] < 128

FcValue(ty, v) == [type |-> ty, v |-> v]

\* FcPatternCreate(): a pattern without elements
FcPatternCreate == [a \in Attributes |-> <<>>]

\* FcObjectValidType: the value types the built-in object accepts
FcObjectValidType(object, ty) ==
    CASE object = "family" -> ty = FcTypeString
      [] object = "slant" -> ty = FcTypeInteger
      [] object = "size" -> ty \in {FcTypeInteger, FcTypeDouble}
      [] object = "antialias" -> ty = FcTypeBool
      [] object = "matrix" -> ty = FcTypeMatrix
      [] object = "charset" -> ty = FcTypeCharSet
      [] object = "lang" -> ty \in {FcTypeLangSet, FcTypeString}

\* FcPatternAdd*(p, object, value): appends a copy of the value to the object's
\* list, or reports failure (a value the object does not accept, or `fails`:
\* the allocation failed)
FcPatternAdd(p, object, value, fails) ==
    IF fails \/ ~FcObjectValidType(object, value.type)
    THEN [ret |-> FcFalse, p |-> p]
    ELSE [ret |-> FcTrue, p |-> [p EXCEPT ![object] = Append(@, value)]]

\* FcPatternGet(p, object, id, &v)
FcPatternGet(p, object, id) ==
    IF p[object] = <<>> THEN [code |-> FcResultNoMatch]
    ELSE IF id < 0 \/ id >= Len(p[object]) THEN [code |-> FcResultNoId]
    ELSE [code |-> FcResultMatch, value |-> p[object][id + 1]]

\* FcPatternGetInteger / FcPatternGetDouble: an Integer or a Double value is
\* converted to the type asked for (the model's doubles are integral)
FcPatternGetNumber(p, object, id) ==
    LET r == FcPatternGet(p, object, id)
    IN  IF r.code # FcResultMatch THEN r
        ELSE IF r.value.type \in {FcTypeInteger, FcTypeDouble}
        THEN [code |-> FcResultMatch, out |-> r.value.v]
        ELSE [code |-> FcResultTypeMismatch]

\* FcPatternGetString / Bool / Matrix / CharSet / LangSet: the value's type must
\* be the one asked for
FcPatternGetTyped(p, object, id, ty) ==
    LET r == FcPatternGet(p, object, id)
    IN  IF r.code # FcResultMatch THEN r
        ELSE IF r.value.type = ty
        THEN [code |-> FcResultMatch, out |-> r.value.v]
        ELSE [code |-> FcResultTypeMismatch]

\* the foreign getter V::value calls
ForeignGet(ty, p, object, id) ==
    CASE ty = "String" -> FcPatternGetTyped(p, object, id, FcTypeString)
      [] ty = "i32" -> FcPatternGetNumber(p, object, id)
      [] ty = "f64" -> FcPatternGetNumber(p, object, id)
      [] ty = "bool" -> FcPatternGetTyped(p, object, id, FcTypeBool)
      [] ty = "Matrix" -> FcPatternGetTyped(p, object, id, FcTypeMatrix)
      [] ty = "OwnedCharSet" -> FcPatternGetTyped(p, object, id, FcTypeCharSet)
      [] ty = "LangSet" -> FcPatternGetTyped(p, object, id, FcTypeLangSet)

\* what V::value returns from the out-parameter after a Match
FromForeign(ty, out) ==
    CASE ty = "String" -> IF IsUtf8(out) THEN Some(out) ELSE None  \* to_str().ok()
      [] ty = "bool" -> Some(out = FcTrue)                          \* val == FcTrue
      [] OTHER -> Some(out)

\* a mutant: the index is not passed on, the first value is always read
SealedValueIndexZero(ty, p, name, index) ==
    LET r == ForeignGet(ty, p, name, 0)
        o == ToResultOpt(r.code)
    IN  [code |-> r.code,
         ret |-> IF o.tag = "Some" THEN FromForeign(ty, r.out) ELSE o]

\* a mutant: a failed get returns the foreign result as an error value
SealedValueTypedError(ty, p, name, index) ==
    LET r == ForeignGet(ty, p, name, AsI32(index))
        o == ToResultOk(r.code)
    IN  [code |-> r.code,
         ret |-> IF o.tag = "Ok" THEN FromForeign(ty, r.out) ELSE o]

\* Sealed::value(pat, name, index): FcPatternGet*(.., index as i32, &mut val).opt()?
SealedValue(ty, p, name, index) ==
    LET r == ForeignGet(ty, p, name, AsI32(index))
        o == ToResultOpt(r.code)
    IN  [code |-> r.code,
         ret |-> IF o.tag = "Some" THEN FromForeign(ty, r.out) ELSE o]

\* the FcValue set_to hands to FcPatternAdd*
ToForeign(ty, value) ==
    CASE ty = "String" -> FcValue(FcTypeString, UpToNul(value \o <<0>>))
      [] ty = "i32" -> FcValue(FcTypeInteger, value)
      [] ty = "f64" -> FcValue(FcTypeDouble, value)
      [] ty = "bool" -> FcValue(FcTypeBool, IF value THEN FcTrue ELSE FcFalse)
      [] ty = "Matrix" -> FcValue(FcTypeMatrix, value)
      [] ty = "OwnedCharSet" -> FcValue(FcTypeCharSet, value)
      [] ty = "LangSet" -> FcValue(FcTypeLangSet, value)

\* a mutant: the boolean is passed inverted
SealedSetToInverted(ty, p, name, value, fails) ==
    IF ty = "String" /\ ~FromBytesWithNulOk(value \o <<0>>)
    THEN [panic |-> TRUE, ret |-> FALSE, p |-> p]
    ELSE LET v == IF ty = "bool" THEN ~value ELSE value
             r == FcPatternAdd(p, name, ToForeign(ty, v), fails)
         IN  [panic |-> FALSE, ret |-> (FcTrue = r.ret), p |-> r.p]

\* Sealed::set_to(self, pat, name): FcTrue == FcPatternAdd*(pat, name, self)
SealedSetTo(ty, p, name, value, fails) ==
    IF ty = "String" /\ ~FromBytesWithNulOk(value \o <<0>>)
    THEN \* CStr::from_bytes_with_nul(self.as_bytes()).unwrap() panics
         [panic |-> TRUE, ret |-> FALSE, p |-> p]
    ELSE LET r == FcPatternAdd(p, name, ToForeign(ty, value), fails)
         IN  [panic |-> FALSE, ret |-> (FcTrue = r.ret), p |-> r.p]

\* the number of values stored in the pattern
CountValues(p) ==
    Len(p["family"]) + Len(p["slant"]) + Len(p["size"]) + Len(p["antialias"])
    + Len(p["matrix"]) + Len(p["charset"]) + Len(p["lang"])

PatternRunning == patOp.ret.tag # "Panic"

\* OwnedPattern::new()
PatternInitial ==
    /\ pat = FcPatternCreate
    /\ added = [a \in Attributes |-> <<>>]
    /\ typedOnly = TRUE
    /\ patOp = [op |-> "new", ret |-> Ok]

\* Pattern::add(name, value)
PatternAdd(a, value, fails) ==
    /\ PatternRunning
    /\ UNCHANGED notPattern
    /\ CountValues(pat) < MaxAdds
    /\ LET r == SealedSetTo(AttributeType(a), pat, a, value, fails)
       IN  /\ pat' = r.p
           /\ added' = IF r.ret THEN [added EXCEPT ![a] = Append(@, value)]
                       ELSE added
           /\ patOp' = [op |-> "add", attr |-> a,
                        ret |-> IF r.panic THEN Panicked ELSE Some(r.ret)]
    /\ UNCHANGED typedOnly

\* Pattern::add_string(name, val): FcPatternAddString, its result ignored
PatternAddString(a, cstr) ==
    /\ PatternRunning
    /\ UNCHANGED notPattern
    /\ CountValues(pat) < MaxAdds
    /\ pat' = FcPatternAdd(pat, a, FcValue(FcTypeString, cstr), FALSE).p
    /\ typedOnly' = FALSE
    /\ patOp' = [op |-> "add_string", attr |-> a, ret |-> Ok]
    /\ UNCHANGED added

\* Pattern::get(name, index)
PatternGet(a, index) ==
    /\ PatternRunning
    /\ UNCHANGED notPattern
    /\ LET r == SealedValue(AttributeType(a), pat, a, index)
       IN  patOp' = [op |-> "get", attr |-> a, index |-> index,
                     code |-> r.code, ret |-> r.ret]
    /\ UNCHANGED <<pat, added, typedOnly>>

\* Pattern::charset(): charsets starts as FcCharSetCreate() (null when that
\* allocation fails), FcPatternGetCharSet(self, FC_CHARSET, 0, &mut charsets)
\* writes it on a Match only and its result is dropped; a non-null charsets is
\* returned as Some.  stored says whether the set is the pattern's
PatternCharset(p, createNull) ==
    LET r == FcPatternGetTyped(p, "charset", 0, FcTypeCharSet)
        charsets == IF r.code = FcResultMatch
                    THEN [null |-> FALSE, set |-> r.out, stored |-> TRUE]
                    ELSE [null |-> createNull, set |-> {}, stored |-> FALSE]
    IN  [code |-> r.code,
         stored |-> charsets.stored,
         ret |-> IF charsets.null THEN None ELSE Some(charsets.set)]

\* pattern.charset()
PatternCharsetCall(createNull) ==
    /\ PatternRunning
    /\ UNCHANGED notPattern
    /\ LET r == PatternCharset(pat, createNull)
       IN  patOp' = [op |-> "charset", code |-> r.code, stored |-> r.stored,
                     ret |-> r.ret]
    /\ UNCHANGED <<pat, added, typedOnly>>

\* a foreign call's result code is translated: result.ok()
ResultOk(code) ==
    /\ PatternRunning
    /\ UNCHANGED notPattern
    /\ patOp' = [op |-> "ok", code |-> code, ret |-> ToResultOk(code)]
    /\ UNCHANGED <<pat, added, typedOnly>>

\* FcConfigSubstitute(config, p, kind): the edits of the configuration applied
\* to p (here none, or one more family value), FcFalse when an allocation fails
FcConfigSubstitute(p, kind, fails, edit) ==
    IF fails THEN [p |-> p, ret |-> FcFalse]
    ELSE [p |-> IF edit
                THEN FcPatternAdd(p, "family", FcValue(FcTypeString, <<255>>), FALSE).p
                ELSE p,
          ret |-> FcTrue]

\* impl From<MatchKind> for sys::FcMatchKind
MatchKindInto(kind) ==
    CASE kind = "Pattern" -> FcMatchPattern
      [] kind = "Font" -> FcMatchFont
      [] kind = "Scan" -> FcMatchScan

\* FontConfig::substitute(pat, kind): assert_eq!(FcConfigSubstitute(..), FcTrue)
ConfigSubstitute(kind, fails, edit) ==
    /\ PatternRunning
    /\ UNCHANGED notPattern
    /\ edit => CountValues(pat) < MaxAdds
    /\ LET r == FcConfigSubstitute(pat, MatchKindInto(kind), fails, edit)
       IN  /\ pat' = r.p
           /\ patOp' = [op |-> "substitute", flag |-> r.ret,
                        ret |-> IF AssertEqFcTrue(r.ret) = "panic" THEN Panicked
                                ELSE Ok]
    /\ typedOnly' = FALSE
    /\ UNCHANGED added

PatternStep ==
    \/ \E a \in Attributes : \E value \in RustValues(AttributeType(a)) :
         \E fails \in BOOLEAN : PatternAdd(a, value, fails)
    \/ \E a \in AddStringNames : \E cstr \in CStrValues : PatternAddString(a, cstr)
    \/ \E a \in Attributes : \E index \in IndexInputs : PatternGet(a, index)
    \/ \E code \in FcResultCodes : ResultOk(code)
    \/ \E createNull \in BOOLEAN : PatternCharsetCall(createNull)

-----------------------------------------------------------------------------
(* Character sets: OwnedCharSet, the set algebra and the page/bit iterator  *)

\* the chars add_char / del_char are called with: 'a', 'b', U+007F, U+0080,
\* U+00FF, U+0100 and U+1F610 (words 3, 4 and 7 of page 0, pages 1 and 0x1F6)
CharInputs == {97, 98, 127, 128, 255, 256, 128528}
\* the chars the second set is built from
OtherInputs == {97, 98, 256}

NoIter == [live |-> FALSE]

WordIndexes == 0..(FC_CHARSET_MAP_SIZE - 1)
PageOf(c) == c \div 256

\* FcCharSetCreate(): no leaf, no member
FcCharSetCreate == [leaves |-> {}, chars |-> {}]

\* FcCharSetAddChar(fcs, ucs4): finds or creates the leaf of the page, sets the bit
FcCharSetAddChar(fcs, c) ==
    [leaves |-> fcs.leaves \cup {PageOf(c)}, chars |-> fcs.chars \cup {c}]

\* FcCharSetDelChar(fcs, ucs4): clears the bit; the leaf stays
FcCharSetDelChar(fcs, c) ==
    [leaves |-> fcs.leaves, chars |-> fcs.chars \ {c}]

\* FcCharSetHasChar(fcs, ucs4)
FcCharSetHasChar(fcs, c) == c \in fcs.chars

\* the set the foreign algebra returns: leaves only for pages with a member
FcCharSetOf(chars) == [leaves |-> {PageOf(c) : c \in chars}, chars |-> chars]

\* FcCharSetIntersect(a, b), FcCharSetSubtract(a, b), FcCharSetUnion(a, b)
FcCharSetIntersect(a, b) == FcCharSetOf(a.chars \cap b.chars)
FcCharSetSubtract(a, b) == FcCharSetOf(a.chars \ b.chars)
FcCharSetUnion(a, b) == FcCharSetOf(a.chars \cup b.chars)

\* the 8 words of 32 bits of a leaf, each word the set of its set bit positions
LeafMap(fcs, page) ==
    [w \in WordIndexes |->
        {b \in 0..31 : (page * 256 + 32 * w + b) \in fcs.chars}]

\* FcCharSetNextPage(a, map, next): the first leaf at or after *next; copies its
\* map, sets *next to the base of the leaf after it (FC_CHARSET_DONE when there is
\* none) and returns its base; FC_CHARSET_DONE, map and *next untouched, when no
\* leaf is left
FcCharSetNextPage(fcs, map, next) ==
    LET from == IF next = FC_CHARSET_DONE THEN {}
                ELSE {l \in fcs.leaves : l >= PageOf(next)}
    IN  IF from = {} THEN [page |-> FC_CHARSET_DONE, map |-> map, next |-> next]
        ELSE LET l == CHOOSE x \in from : \A y \in from : x <= y
                 after == {y \in fcs.leaves : y > l}
             IN  [page |-> l * 256,
                  map |-> LeafMap(fcs, l),
                  next |-> IF after = {} THEN FC_CHARSET_DONE
                           ELSE (CHOOSE x \in after : \A y \in after : x <= y) * 256]

\* FcCharSetFirstPage(a, map, next): *next = 0, then FcCharSetNextPage
FcCharSetFirstPage(fcs, map) == FcCharSetNextPage(fcs, map, 0)

\* CharSet::intersect / subtract / union: the foreign call on (self, other)
\* a mutant: the operands of subtract are passed the other way round
CharSetSubtractSwapped(self, other) == FcCharSetSubtract(other, self)
CharSetIntersect(self, other) == FcCharSetIntersect(self, other)
CharSetSubtract(self, other) == FcCharSetSubtract(self, other)
CharSetUnion(self, other) == FcCharSetUnion(self, other)

\* CharSet::iter()
CharSetIter(fcs) ==
    LET r == FcCharSetFirstPage(fcs, [w \in WordIndexes |-> {}])
    IN  [live |-> TRUE, codepoint |-> r.page, next |-> r.next, map |-> r.map,
         i |-> 0, bit |-> 0]

\* bits >> k on a word held as the set of its set bit positions
Shr(bits, k) == {b - k : b \in {x \in bits : x >= k}}

\* char::try_from(u32): a Unicode scalar value
CharTryFrom(u) ==
    IF (u >= 0 /\ u < 55296) \/ (u > 57343 /\ u <= 1114111) THEN Some(u) ELSE None

\* the inner loop of next(): while n & 1 == 0 { ... }, from n = bits >> self.bit
RECURSIVE IterScan(_)
IterScan(st) ==
    LET n == Shr(st.map[st.i], st.bit)
    IN  IF 0 \in n THEN [st |-> st, ok |-> TRUE]
        ELSE IF n = {}
        THEN [st |-> [st EXCEPT !.i = @ + 1, !.bit = 0], ok |-> FALSE]
        ELSE IF st.bit + 1 > 31
        THEN [st |-> [st EXCEPT !.i = @ + 1, !.bit = 0], ok |-> FALSE]
        ELSE IF st.i >= FC_CHARSET_MAP_SIZE
        THEN [st |-> [st EXCEPT !.bit = @ + 1], ok |-> FALSE]
        ELSE IterScan([st EXCEPT !.bit = @ + 1])

\* a mutant: after yielding, the bit index is not advanced past bit 31 to the
\* next word
RECURSIVE IterNextNoCarry(_, _)
IterNextNoCarry(fcs, st) ==
    IF st.codepoint = FC_CHARSET_DONE THEN [st |-> st, ret |-> None]
    ELSE IF st.i >= FC_CHARSET_MAP_SIZE
    THEN IF st.next = FC_CHARSET_DONE
         THEN IterNextNoCarry(fcs, [st EXCEPT !.codepoint = FC_CHARSET_DONE])
         ELSE LET r == FcCharSetNextPage(fcs, st.map, st.next)
              IN  IterNextNoCarry(fcs, [st EXCEPT !.codepoint = r.page,
                                        !.map = r.map, !.next = r.next, !.i = 0])
    ELSE IF st.map[st.i] = {}
    THEN IterNextNoCarry(fcs, [st EXCEPT !.i = @ + 1, !.bit = 0])
    ELSE LET s == IterScan(st)
         IN  IF s.ok
             THEN LET cp == s.st.codepoint + 32 * s.st.i + s.st.bit
                  IN  [st |-> IF s.st.bit + 1 > 31
                              THEN [s.st EXCEPT !.bit = 0]
                              ELSE [s.st EXCEPT !.bit = @ + 1],
                       ret |-> CharTryFrom(cp)]
             ELSE IterNextNoCarry(fcs, s.st)

\* impl Iterator for Iter: fn next(&mut self) -> Option<char>, the whole loop
RECURSIVE IterNext(_, _)
IterNext(fcs, st) ==
    IF st.codepoint = FC_CHARSET_DONE THEN [st |-> st, ret |-> None]
    ELSE IF st.i >= FC_CHARSET_MAP_SIZE
    THEN \* end of page
         IF st.next = FC_CHARSET_DONE
         THEN IterNext(fcs, [st EXCEPT !.codepoint = FC_CHARSET_DONE])
         ELSE LET r == FcCharSetNextPage(fcs, st.map, st.next)
              IN  IterNext(fcs, [st EXCEPT !.codepoint = r.page, !.map = r.map,
                                 !.next = r.next, !.i = 0])
    ELSE IF st.map[st.i] = {}
    THEN IterNext(fcs, [st EXCEPT !.i = @ + 1, !.bit = 0])
    ELSE LET s == IterScan(st)
         IN  IF s.ok
             THEN LET cp == s.st.codepoint + 32 * s.st.i + s.st.bit
                  IN  [st |-> IF s.st.bit + 1 > 31
                              THEN [s.st EXCEPT !.i = @ + 1, !.bit = 0]
                              ELSE [s.st EXCEPT !.bit = @ + 1],
                       ret |-> CharTryFrom(cp)]
             ELSE IterNext(fcs, s.st)

\* OwnedCharSet::new(), twice; no iterator, no algebra call yet
CharSetInitial ==
    /\ csA = FcCharSetCreate
    /\ csB = FcCharSetCreate
    /\ csOp = [op |-> "none", call |-> "new", flag |-> FcTrue, ret |-> "returned"]
    /\ it = NoIter
    /\ yielded = <<>>

\* no assertion of a character-set call has failed
CharSetRunning == ~(csOp.op = "none" /\ csOp.ret = "panic")

\* a mutant: the merge copies the leaves of b without their members
FcCharSetMergeLeavesOnly(a, b) ==
    [leaves |-> a.leaves \cup b.leaves, chars |-> a.chars]

\* FcCharSetMerge(a, b, NULL): a gains the leaves and the members of b
FcCharSetMerge(a, b) ==
    [leaves |-> a.leaves \cup b.leaves, chars |-> a.chars \cup b.chars]

\* the record of a mutating call: res is the flag the foreign call returned
CharSetCall(call, res) ==
    [op |-> "none", call |-> call, flag |-> res, ret |-> AssertEqFcTrue(res)]

\* OwnedCharSet::add_char(c) on the first set (&mut self: no Iter borrows it)
AddChar(c, fails) ==
    /\ CharSetRunning
    /\ ~it.live
    /\ Cardinality(csA.chars \cup {c}) <= MaxSetSize
    /\ csA' = IF fails THEN csA ELSE FcCharSetAddChar(csA, c)
    /\ csOp' = CharSetCall("add_char", FcBoolOf(fails))
    /\ UNCHANGED <<csB, it, yielded>>
    /\ UNCHANGED notCharSet

\* OwnedCharSet::del_char(c) on the first set
DelChar(c, fails) ==
    /\ CharSetRunning
    /\ ~it.live
    /\ c \in csA.chars
    /\ csA' = IF fails THEN csA ELSE FcCharSetDelChar(csA, c)
    /\ csOp' = CharSetCall("del_char", FcBoolOf(fails))
    /\ UNCHANGED <<csB, it, yielded>>
    /\ UNCHANGED notCharSet

\* OwnedCharSet::add_char(c) on the second set
AddCharOther(c, fails) ==
    /\ CharSetRunning
    /\ ~it.live
    /\ c \notin csB.chars
    /\ csB' = IF fails THEN csB ELSE FcCharSetAddChar(csB, c)
    /\ csOp' = CharSetCall("add_char", FcBoolOf(fails))
    /\ UNCHANGED <<csA, it, yielded>>
    /\ UNCHANGED notCharSet

\* OwnedCharSet::merge(other): the second set is merged into the first
Merge(fails) ==
    /\ CharSetRunning
    /\ ~it.live
    /\ Cardinality(csA.chars \cup csB.chars) <= MaxSetSize
    /\ csA' = IF fails THEN csA ELSE FcCharSetMerge(csA, csB)
    /\ csOp' = CharSetCall("merge", FcBoolOf(fails))
    /\ UNCHANGED <<csB, it, yielded>>
    /\ UNCHANGED notCharSet

\* self.intersect(other), self.subtract(other) or self.union(other), with the
\* two sets as (self, other) in either order
Algebra(op, selfIsA) ==
    /\ CharSetRunning
    /\ ~it.live
    /\ LET self == IF selfIsA THEN csA ELSE csB
           other == IF selfIsA THEN csB ELSE csA
       IN  csOp' = [op |-> op, selfIsA |-> selfIsA,
                    res |-> CASE op = "intersect" -> CharSetIntersect(self, other)
                              [] op = "subtract" -> CharSetSubtract(self, other)
                              [] op = "union" -> CharSetUnion(self, other)]
    /\ UNCHANGED <<csA, csB, it, yielded>>
    /\ UNCHANGED notCharSet

\* let mut iter = cs.iter();
IterStart ==
    /\ CharSetRunning
    /\ ~it.live
    /\ csOp.op = "none"
    /\ it' = CharSetIter(csA)
    /\ yielded' = <<>>
    /\ UNCHANGED <<csA, csB, csOp>>
    /\ UNCHANGED notCharSet

\* iter.next()
IterCall ==
    /\ it.live
    /\ Len(yielded) < Cardinality(csA.chars) + MaxExtraCalls
    /\ LET r == IterNext(csA, it)
       IN  /\ it' = r.st
           /\ yielded' = Append(yielded, r.ret)
    /\ UNCHANGED <<csA, csB, csOp>>
    /\ UNCHANGED notCharSet

\* the Iter goes out of scope
IterDrop ==
    /\ it.live
    /\ it' = NoIter
    /\ yielded' = <<>>
    /\ UNCHANGED <<csA, csB, csOp>>
    /\ UNCHANGED notCharSet

CharSetStep ==
    \/ \E c \in CharInputs, fails \in BOOLEAN : AddChar(c, fails)
    \/ \E c \in CharInputs, fails \in BOOLEAN : DelChar(c, fails)
    \/ \E c \in OtherInputs, fails \in BOOLEAN : AddCharOther(c, fails)
    \/ \E fails \in BOOLEAN : Merge(fails)
    \/ \E op \in {"intersect", "subtract", "union"} :
         \E selfIsA \in BOOLEAN : Algebra(op, selfIsA)
    \/ IterStart
    \/ IterCall
    \/ IterDrop

-----------------------------------------------------------------------------
(* Language sets: LangSet::push, cmp and contains                           *)

\* the tags push is called with, as the bytes of the C string:
\* "en", "zh", "fr", "en-US", "en-UK"
LangInputs ==
    {<<101, 110>>, <<122, 104>>, <<102, 114>>,
     <<101, 110, 45, 85, 83>>, <<101, 110, 45, 85, 75>>}

\* the byte at position k of a C string, the terminating NUL after its end
ByteAt(s, k) == IF k <= Len(s) THEN s[k] ELSE 0

\* FcToLower
FcToLower(c) == IF c >= 65 /\ c <= 90 THEN c + 32 ELSE c

\* FcLangEnd(c): c == '-' || c == '\0'
FcLangEnd(c) == c = 45 \/ c = 0

\* FcLangCompare(s1, s2), byte by byte from position k with the result so far
RECURSIVE FcLangCompareFrom(_, _, _, _)
FcLangCompareFrom(s1, s2, k, result) ==
    LET c1 == FcToLower(ByteAt(s1, k))
        c2 == FcToLower(ByteAt(s2, k))
    IN  IF c1 # c2
        THEN IF FcLangEnd(c1) /\ FcLangEnd(c2) THEN FcLangDifferentTerritory
             ELSE result
        ELSE IF c1 = 0 THEN FcLangEqual
        ELSE IF c1 = 45
        THEN FcLangCompareFrom(s1, s2, k + 1, FcLangDifferentTerritory)
        ELSE FcLangCompareFrom(s1, s2, k + 1, result)

FcLangCompare(s1, s2) == FcLangCompareFrom(s1, s2, 1, FcLangDifferentLang)

\* FcLangContains(super, sub): the same tag, or one of them is the other
\* without its territory
RECURSIVE FcLangContainsFrom(_, _, _)
FcLangContainsFrom(super, sub, k) ==
    LET c1 == FcToLower(ByteAt(super, k))
        c2 == FcToLower(ByteAt(sub, k))
    IN  IF c1 # c2
        THEN (c1 = 45 /\ c2 = 0) \/ (c1 = 0 /\ c2 = 45)
        ELSE IF c1 = 0 THEN TRUE
        ELSE FcLangContainsFrom(super, sub, k + 1)

FcLangContains(super, sub) == FcLangContainsFrom(super, sub, 1)

\* FcLangSetCreate()
FcLangSetCreate == {}

\* FcLangSetAdd(ls, lang): FcFalse and no change when the allocation fails
FcLangSetAdd(ls, lang, fails) ==
    IF fails THEN [ls |-> ls, ret |-> FcFalse]
    ELSE [ls |-> ls \cup {lang}, ret |-> FcTrue]

\* FcLangSetCompare(lsa, lsb): the best (least) FcLangCompare of a tag of lsa
\* with a tag of lsb, FcLangDifferentLang when there is no pair
FcLangSetCompare(lsa, lsb) ==
    LET rs == {FcLangCompare(a, b) : a \in lsa, b \in lsb}
    IN  IF FcLangEqual \in rs THEN FcLangEqual
        ELSE IF FcLangDifferentTerritory \in rs THEN FcLangDifferentTerritory
        ELSE FcLangDifferentLang

\* FcLangSetContains(lsa, lsb): every tag of lsb is contained by a tag of lsa
FcLangSetContains(lsa, lsb) ==
    IF \A b \in lsb : \E a \in lsa : FcLangContains(a, b) THEN FcTrue ELSE FcFalse

\* a mutant: the unreachable DifferentCountry arm comes before DifferentTerritory
LangSetCmpFromCountryFirst(value) ==
    IF value = FcLangEqual THEN "Equal"
    ELSE IF value = FcLangDifferentCountry THEN "DifferentCountry"
    ELSE IF value = FcLangDifferentTerritory THEN "DifferentTerritory"
    ELSE IF value = FcLangDifferentLang THEN "DifferentLang"
    ELSE "panic"

\* impl From<sys::FcLangResult> for LangSetCmp: the match arms in their order
LangSetCmpFrom(value) ==
    IF value = FcLangEqual THEN "Equal"
    ELSE IF value = FcLangDifferentTerritory THEN "DifferentTerritory"
    ELSE IF value = FcLangDifferentCountry THEN "DifferentCountry"
    ELSE IF value = FcLangDifferentLang THEN "DifferentLang"
    ELSE "panic"

\* LangSet::cmp
LangSetCmp(self, other) == LangSetCmpFrom(FcLangSetCompare(self, other))

\* a mutant: the operands of contains are passed the other way round
LangSetContainsSwapped(self, rhs) == FcLangSetContains(rhs, self) = FcTrue

\* LangSet::contains
LangSetContains(self, rhs) == FcLangSetContains(self, rhs) = FcTrue

\* LangSet::new(), twice
LangSetInitial ==
    /\ lsA = FcLangSetCreate
    /\ lsB = FcLangSetCreate
    /\ lsOp = [op |-> "new"]

\* LangSet::push(lang) on either set: let _ = FcLangSetAdd(..)
LangSetPush(onA, lang, fails) ==
    LET r == FcLangSetAdd(IF onA THEN lsA ELSE lsB, lang, fails)
    IN  /\ Cardinality(r.ls) <= MaxLangs
        /\ lsA' = IF onA THEN r.ls ELSE lsA
        /\ lsB' = IF onA THEN lsB ELSE r.ls
        /\ lsOp' = [op |-> "push", flag |-> r.ret, ret |-> "returned"]
        /\ UNCHANGED notLangSet

\* self.cmp(&other), with the two sets as (self, other) in either order
LangSetCmpCall(selfIsA) ==
    /\ lsOp' = [op |-> "cmp", selfIsA |-> selfIsA,
                ret |-> IF selfIsA THEN LangSetCmp(lsA, lsB)
                        ELSE LangSetCmp(lsB, lsA)]
    /\ UNCHANGED <<lsA, lsB>>
    /\ UNCHANGED notLangSet

\* self.contains(&rhs)
LangSetContainsCall(selfIsA) ==
    /\ lsOp' = [op |-> "contains", selfIsA |-> selfIsA,
                ret |-> IF selfIsA THEN LangSetContains(lsA, lsB)
                        ELSE LangSetContains(lsB, lsA)]
    /\ UNCHANGED <<lsA, lsB>>
    /\ UNCHANGED notLangSet

LangSetStep ==
    \/ \E onA \in BOOLEAN, lang \in LangInputs, fails \in BOOLEAN :
         LangSetPush(onA, lang, fails)
    \/ \E selfIsA \in BOOLEAN : LangSetCmpCall(selfIsA)
    \/ \E selfIsA \in BOOLEAN : LangSetContainsCall(selfIsA)

-----------------------------------------------------------------------------
(* Font sets: FontSet push / len / iter / iter_mut / drop, OwnedPattern     *)

PatternHandles == 1..MaxPatterns

\* FcPatternCreate / FcPatternDuplicate: a handle never handed out before
FreshHandle == patCount + 1

\* FcPatternDestroy(h): the reference count of a wrapper-made pattern is 1,
\* so every call releases the pattern
FcPatternDestroy(destroys, hs) ==
    [h \in PatternHandles |-> IF h \in hs THEN destroys[h] + 1 ELSE destroys[h]]

\* FcFontSetCreate(): nfont = 0, no fonts
FcFontSetCreate == [state |-> "alive", nfont |-> 0, fonts |-> <<>>]

\* FcFontSetAdd(s, font): appends font, FcFalse and no change when growing fails
FcFontSetAdd(set, font, fails) ==
    IF fails THEN [set |-> set, ret |-> FcFalse]
    ELSE [set |-> [set EXCEPT !.nfont = @ + 1, !.fonts = Append(@, font)],
          ret |-> FcTrue]

\* a mutant: the wrapper's destructor still runs on the pushed pattern
OwnedPatternIntoInnerDropping(h) == [ptr |-> h, dropped |-> {h}]

\* OwnedPattern::into_inner: the raw pointer; mem::forget(self) runs no Drop
OwnedPatternIntoInner(h) == [ptr |-> h, dropped |-> {}]

\* FontSet::len: (*self.as_ptr()).nfont as usize
FontSetLen(set) == set.nfont

\* a mutant: the index is compared before it is used but never advanced
FontSetIterNextStuck(set, index) ==
    IF index >= set.nfont THEN [index |-> index, ret |-> None]
    ELSE [index |-> index, ret |-> Some(set.fonts[index + 1])]

\* Iter::next / IterMut::next: index = self.index; self.index += 1; None when
\* index >= nfont, else the pattern at fonts[index] (never null here)
FontSetIterNext(set, index) ==
    IF index >= set.nfont THEN [index |-> index + 1, ret |-> None]
    ELSE [index |-> index + 1, ret |-> Some(set.fonts[index + 1])]

NoFsIter == [kind |-> "none", index |-> 0]

FontSetInitial ==
    /\ patCount = 0
    /\ fsOwned = {}
    /\ fsDestroys = [h \in PatternHandles |-> 0]
    /\ fontset = [state |-> "none", nfont |-> 0, fonts |-> <<>>]
    /\ pushedSeq = <<>>
    /\ fsIt = NoFsIter
    /\ fsYield = <<>>
    /\ fsPasses = 0
    /\ fsRefs = {}
    /\ fsOp = [op |-> "none"]
    /\ fsPanicked = FALSE

\* OwnedPattern::new()
OwnedPatternNew ==
    /\ ~fsPanicked
    /\ patCount < MaxPatterns
    /\ patCount' = FreshHandle
    /\ fsOwned' = fsOwned \cup {FreshHandle}
    /\ fsOp' = [op |-> "pattern_new"]
    /\ UNCHANGED <<fsDestroys, fontset, pushedSeq, fsIt, fsYield, fsPasses, fsRefs,
                   fsPanicked>>
    /\ UNCHANGED notFontSet

\* impl Clone for OwnedPattern: FcPatternDuplicate
OwnedPatternClone(h) ==
    /\ ~fsPanicked
    /\ h \in fsOwned
    /\ patCount < MaxPatterns
    /\ patCount' = FreshHandle
    /\ fsOwned' = fsOwned \cup {FreshHandle}
    /\ fsOp' = [op |-> "pattern_clone"]
    /\ UNCHANGED <<fsDestroys, fontset, pushedSeq, fsIt, fsYield, fsPasses, fsRefs,
                   fsPanicked>>
    /\ UNCHANGED notFontSet

\* impl Drop for OwnedPattern: FcPatternDestroy (also while unwinding)
OwnedPatternDrop(h) ==
    /\ h \in fsOwned
    /\ fsOwned' = fsOwned \ {h}
    /\ fsDestroys' = FcPatternDestroy(fsDestroys, {h})
    /\ fsOp' = [op |-> "pattern_drop"]
    /\ UNCHANGED <<patCount, fontset, pushedSeq, fsIt, fsYield, fsPasses, fsRefs,
                   fsPanicked>>
    /\ UNCHANGED notFontSet

\* FontSet::new()
FontSetNew ==
    /\ ~fsPanicked
    /\ fontset.state # "alive"
    /\ fontset' = FcFontSetCreate
    /\ pushedSeq' = <<>>
    /\ fsPasses' = 0
    /\ fsOp' = [op |-> "new"]
    /\ UNCHANGED <<patCount, fsOwned, fsDestroys, fsIt, fsYield, fsRefs, fsPanicked>>
    /\ UNCHANGED notFontSet

\* FontSet::push(pat): assert_eq!(FcFontSetAdd(set, pat.into_inner()), FcTrue)
FontSetPush(h, fails) ==
    /\ ~fsPanicked
    /\ fontset.state = "alive"
    /\ fsIt.kind = "none"
    /\ h \in fsOwned
    /\ LET inner == OwnedPatternIntoInner(h)
           r == FcFontSetAdd(fontset, inner.ptr, fails)
       IN  /\ fsOwned' = fsOwned \ {h}
           /\ fsDestroys' = FcPatternDestroy(fsDestroys, inner.dropped)
           /\ fontset' = r.set
           /\ fsPanicked' = (AssertEqFcTrue(r.ret) = "panic")
           /\ pushedSeq' = IF r.ret = FcTrue THEN Append(pushedSeq, h) ELSE pushedSeq
           /\ fsOp' = [op |-> "push", flag |-> r.ret,
                       ret |-> AssertEqFcTrue(r.ret)]
    /\ UNCHANGED <<patCount, fsIt, fsYield, fsPasses, fsRefs>>
    /\ UNCHANGED notFontSet

\* FontSet::len()
FontSetLenCall ==
    /\ ~fsPanicked
    /\ fontset.state = "alive"
    /\ fsOp' = [op |-> "len", ret |-> FontSetLen(fontset)]
    /\ UNCHANGED <<patCount, fsOwned, fsDestroys, fontset, pushedSeq, fsIt, fsYield,
                   fsPasses, fsRefs, fsPanicked>>
    /\ UNCHANGED notFontSet

\* FontSet::iter() / FontSet::iter_mut(): index 0
FontSetIter(kind) ==
    /\ ~fsPanicked
    /\ fontset.state = "alive"
    /\ fsIt.kind = "none"
    /\ fsPasses < MaxPasses
    /\ fsIt' = [kind |-> kind, index |-> 0]
    /\ fsYield' = <<>>
    /\ fsPasses' = fsPasses + 1
    /\ fsOp' = [op |-> kind]
    /\ UNCHANGED <<patCount, fsOwned, fsDestroys, fontset, pushedSeq, fsRefs, fsPanicked>>
    /\ UNCHANGED notFontSet

\* next() on the Iter / IterMut; the item is a reference of lifetime 'pat,
\* which the caller keeps
FontSetIterCall ==
    /\ ~fsPanicked
    /\ fsIt.kind # "none"
    /\ Len(fsYield) < fontset.nfont + MaxExtraCalls
    /\ LET r == FontSetIterNext(fontset, fsIt.index)
       IN  /\ fsIt' = [fsIt EXCEPT !.index = r.index]
           /\ fsYield' = Append(fsYield, r.ret)
           /\ fsRefs' = IF r.ret = None THEN fsRefs ELSE fsRefs \cup {r.ret.v}
           /\ fsOp' = [op |-> "next", ret |-> r.ret]
    /\ UNCHANGED <<patCount, fsOwned, fsDestroys, fontset, pushedSeq, fsPasses, fsPanicked>>
    /\ UNCHANGED notFontSet

\* the Iter / IterMut goes out of scope: the borrow 'fs of the set ends
FontSetIterDrop ==
    /\ fsIt.kind # "none"
    /\ fsIt' = NoFsIter
    /\ fsYield' = <<>>
    /\ fsOp' = [op |-> "iter_drop"]
    /\ UNCHANGED <<patCount, fsOwned, fsDestroys, fontset, pushedSeq, fsPasses, fsRefs,
                   fsPanicked>>
    /\ UNCHANGED notFontSet

\* impl Drop for FontSet: FcFontSetDestroy releases every font of the set.
\* Only a live Iter / IterMut (lifetime 'fs) keeps the set from being dropped;
\* the items handed out have the lifetime 'pat, which outlives the set.
FontSetDrop ==
    /\ fontset.state = "alive"
    /\ fsIt.kind = "none"
    /\ fontset' = [fontset EXCEPT !.state = "dropped"]
    /\ fsDestroys' = FcPatternDestroy(fsDestroys,
                                      {fontset.fonts[k] : k \in 1..Len(fontset.fonts)})
    /\ fsOp' = [op |-> "drop"]
    /\ UNCHANGED <<patCount, fsOwned, pushedSeq, fsIt, fsYield, fsPasses, fsRefs,
                   fsPanicked>>
    /\ UNCHANGED notFontSet

\* the caller reads a pattern through a reference it got from next()
PatternRefRead(h) ==
    /\ ~fsPanicked
    /\ h \in fsRefs
    /\ fsOp' = [op |-> "read", handle |-> h, freed |-> fsDestroys[h] > 0]
    /\ UNCHANGED <<patCount, fsOwned, fsDestroys, fontset, pushedSeq, fsIt, fsYield,
                   fsPasses, fsRefs, fsPanicked>>
    /\ UNCHANGED notFontSet

\* the caller lets go of a reference it got from next()
PatternRefDrop(h) ==
    /\ h \in fsRefs
    /\ fsRefs' = fsRefs \ {h}
    /\ fsOp' = [op |-> "ref_drop"]
    /\ UNCHANGED <<patCount, fsOwned, fsDestroys, fontset, pushedSeq, fsIt, fsYield,
                   fsPasses, fsPanicked>>
    /\ UNCHANGED notFontSet

FontSetStep ==
    \/ OwnedPatternNew
    \/ \E h \in PatternHandles : OwnedPatternClone(h)
    \/ \E h \in PatternHandles : OwnedPatternDrop(h)
    \/ FontSetNew
    \/ \E h \in PatternHandles, fails \in BOOLEAN : FontSetPush(h, fails)
    \/ FontSetLenCall
    \/ \E kind \in {"iter", "iter_mut"} : FontSetIter(kind)
    \/ FontSetIterCall
    \/ FontSetIterDrop
    \/ FontSetDrop
    \/ \E h \in PatternHandles : PatternRefRead(h)
    \/ \E h \in PatternHandles : PatternRefDrop(h)

-----------------------------------------------------------------------------
(* Object sets: ObjectSet::add                                              *)

\* FcObjectSetCreate()
FcObjectSetCreate == {}

\* FcObjectSetAdd(os, object): the name joins the set, FcFalse and no change
\* when the allocation fails
FcObjectSetAdd(os, object, fails) ==
    IF fails THEN [os |-> os, ret |-> FcFalse]
    ELSE [os |-> os \cup {object}, ret |-> FcTrue]

\* ObjectSet::new()
ObjectSetInitial ==
    /\ objset = FcObjectSetCreate
    /\ osOp = [op |-> "new", ret |-> "returned"]

\* ObjectSet::add(name): assert_eq!(FcObjectSetAdd(set, name), FcTrue)
ObjectSetAdd(name, fails) ==
    /\ osOp.ret # "panic"
    /\ LET r == FcObjectSetAdd(objset, name, fails)
       IN  /\ Cardinality(r.os) <= MaxObjects
           /\ objset' = r.os
           /\ osOp' = [op |-> "add", flag |-> r.ret, ret |-> AssertEqFcTrue(r.ret)]
    /\ UNCHANGED notObjectSet

-----------------------------------------------------------------------------
(* The mutating calls of every wrapper, each with a foreign call that fails *)
(* or not                                                                   *)

MutationStep ==
    \/ \E fails \in BOOLEAN : PatternAdd("slant", 7, fails)
    \/ \E kind \in {"Pattern", "Font", "Scan"}, fails \in BOOLEAN :
         ConfigSubstitute(kind, fails, FALSE)
    \/ \E fails \in BOOLEAN : LangSetPush(TRUE, <<101, 110>>, fails)
    \/ \E fails \in BOOLEAN : ObjectSetAdd("family", fails)
    \/ \E fails \in BOOLEAN : AddChar(97, fails)
    \/ \E fails \in BOOLEAN : DelChar(97, fails)
    \/ \E fails \in BOOLEAN : Merge(fails)
    \/ OwnedPatternNew
    \/ FontSetNew
    \/ \E h \in PatternHandles, fails \in BOOLEAN : FontSetPush(h, fails)

-----------------------------------------------------------------------------
(* Matching and parsing: font_match, font_sort, match_, FromStr             *)

\* what FcFontMatch / FcFontSort / FcFontSetMatch hand back: the result code
\* written through the out-parameter and whether the returned pointer is null
ForeignMatchOutcomes ==
    {[res |-> FcResultMatch, null |-> FALSE],
     [res |-> FcResultMatch, null |-> TRUE],
     [res |-> FcResultNoMatch, null |-> TRUE],
     [res |-> FcResultOutOfMemory, null |-> TRUE]}

\* the &str arguments of from_str, as bytes: "a", and "a\0b" with an interior NUL
NameInputs == {<<97>>, <<97, 0, 98>>}

\* CString::new(s): an error when s holds a NUL byte
CStringNewOk(bytes) == \A k \in 1..Len(bytes) : bytes[k] # 0

\* Pattern::font_match: res.ok().unwrap(); NonNull::new(pat).unwrap()
PatternFontMatch(out) ==
    IF ToResultOk(out.res) # Ok THEN Panicked
    ELSE IF out.null THEN Panicked
    ELSE Ok

\* Pattern::font_sort: res.ok()?; a null set is Err(Error::OutOfMemory)
PatternFontSort(out) ==
    LET r == ToResultOk(out.res)
    IN  IF r # Ok THEN r
        ELSE IF out.null THEN Err("OutOfMemory")
        ELSE Ok

\* FontConfig::match_: substitute asserts, then result.ok().unwrap() and
\* NonNull::new(pat).unwrap()
FontConfigMatch(substFlag, out) ==
    IF AssertEqFcTrue(substFlag) = "panic" THEN Panicked
    ELSE IF ToResultOk(out.res) # Ok THEN Panicked
    ELSE IF out.null THEN Panicked
    ELSE Ok

\* a mutant: the wrapper is built whatever the parser returned
PatternFromStrUnchecked(bytes, null) ==
    IF ~CStringNewOk(bytes) THEN Panicked ELSE Ok

\* impl FromStr for OwnedPattern / Pattern: CString::new(s).unwrap(), then
\* Ok(the handle) when FcNameParse returned non-null, else Err(Error::OutOfMemory)
PatternFromStr(bytes, null) ==
    IF ~CStringNewOk(bytes) THEN Panicked
    ELSE IF null THEN Err("OutOfMemory")
    ELSE Ok

\* pattern.font_match(config) on an owned pattern; the match is a new owned
\* pattern
FontMatchCall(h, out) ==
    /\ ~fsPanicked
    /\ h \in fsOwned
    /\ patCount < MaxPatterns
    /\ LET ret == PatternFontMatch(out)
       IN  /\ fsOp' = [op |-> "font_match", res |-> out.res, null |-> out.null,
                       ret |-> ret, handle |-> IF ret = Ok THEN FreshHandle ELSE 0]
           /\ fsPanicked' = (ret = Panicked)
           /\ patCount' = IF out.null THEN patCount ELSE FreshHandle
           /\ fsOwned' = IF ret = Ok THEN fsOwned \cup {FreshHandle} ELSE fsOwned
    /\ UNCHANGED <<fsDestroys, fontset, pushedSeq, fsIt, fsYield, fsPasses, fsRefs>>
    /\ UNCHANGED notFontSet

\* pattern.font_sort(config, trim); the caller lets the returned set go at once
FontSortCall(h, trim, out) ==
    /\ ~fsPanicked
    /\ h \in fsOwned
    /\ LET ret == PatternFontSort(out)
       IN  /\ fsOp' = [op |-> "font_sort", res |-> out.res, null |-> out.null,
                       ret |-> ret, handle |-> 0]
           /\ fsPanicked' = (ret = Panicked)
    /\ UNCHANGED <<patCount, fsOwned, fsDestroys, fontset, pushedSeq, fsIt, fsYield,
                   fsPasses, fsRefs>>
    /\ UNCHANGED notFontSet

\* config.match_(sets, pat); the match is a new owned pattern
ConfigMatchCall(h, substFails, out) ==
    /\ ~fsPanicked
    /\ h \in fsOwned
    /\ patCount < MaxPatterns
    /\ LET ret == FontConfigMatch(FcBoolOf(substFails), out)
       IN  /\ fsOp' = [op |-> "match_", res |-> out.res, null |-> out.null,
                       ret |-> ret, handle |-> IF ret = Ok THEN FreshHandle ELSE 0,
                       substFlag |-> FcBoolOf(substFails)]
           /\ fsPanicked' = (ret = Panicked)
           /\ patCount' = IF substFails \/ out.null THEN patCount ELSE FreshHandle
           /\ fsOwned' = IF ret = Ok THEN fsOwned \cup {FreshHandle} ELSE fsOwned
    /\ UNCHANGED <<fsDestroys, fontset, pushedSeq, fsIt, fsYield, fsPasses, fsRefs>>
    /\ UNCHANGED notFontSet

\* s.parse::<OwnedPattern>(): FcNameParse returns a new handle or null
FromStrCall(bytes, null) ==
    /\ ~fsPanicked
    /\ patCount < MaxPatterns
    /\ LET ret == PatternFromStr(bytes, null)
           parsed == CStringNewOk(bytes) /\ ~null
       IN  /\ fsOp' = [op |-> "from_str", called |-> CStringNewOk(bytes),
                       null |-> null, ret |-> ret,
                       handle |-> IF parsed THEN FreshHandle ELSE 0]
           /\ fsPanicked' = (ret = Panicked)
           /\ patCount' = IF parsed THEN FreshHandle ELSE patCount
           /\ fsOwned' = IF ret = Ok THEN fsOwned \cup {FreshHandle} ELSE fsOwned
    /\ UNCHANGED <<fsDestroys, fontset, pushedSeq, fsIt, fsYield, fsPasses, fsRefs>>
    /\ UNCHANGED notFontSet

MatchStep ==
    \/ OwnedPatternNew
    \/ \E h \in PatternHandles : OwnedPatternDrop(h)
    \/ \E h \in PatternHandles, out \in ForeignMatchOutcomes : FontMatchCall(h, out)
    \/ \E h \in PatternHandles, trim \in BOOLEAN, out \in ForeignMatchOutcomes :
         FontSortCall(h, trim, out)
    \/ \E h \in PatternHandles, substFails \in BOOLEAN, out \in ForeignMatchOutcomes :
         ConfigMatchCall(h, substFails, out)
    \/ \E bytes \in NameInputs, null \in BOOLEAN : FromStrCall(bytes, null)

-----------------------------------------------------------------------------
(* String sets: StringSet::iter and StringSetIter::next                     *)

\* the strings a foreign string set holds, as bytes: "en", "ja", and two that
\* are not UTF-8 (a lone 0xFF, and 0xC3 followed by '(')
StringInputs == {<<101, 110>>, <<106, 97>>, <<255>>, <<195, 40>>}

NoStrList == [live |-> FALSE, n |-> 0]

\* FcStrListCreate(set): a cursor at the first string
FcStrListCreate == [live |-> TRUE, n |-> 0]

\* FcStrListNext(list): the string at the cursor, which moves on; null at the end
FcStrListNext(set, n) ==
    IF n >= Len(set) THEN [n |-> n, null |-> TRUE, s |-> <<>>]
    ELSE [n |-> n + 1, null |-> FALSE, s |-> set[n + 1]]

\* a mutant: an entry that is not UTF-8 ends the iteration
StringSetIterNextStopping(set, n) ==
    LET r == FcStrListNext(set, n)
    IN  IF r.null THEN [n |-> r.n, ret |-> None]
        ELSE IF IsUtf8(r.s) THEN [n |-> r.n, ret |-> Some(r.s)]
        ELSE [n |-> r.n, ret |-> None]

\* impl Iterator for StringSetIter: None on a null string, else
\* CStr::from_ptr(s).to_str().ok().or_else(|| self.next())
RECURSIVE StringSetIterNext(_, _)
StringSetIterNext(set, n) ==
    LET r == FcStrListNext(set, n)
    IN  IF r.null THEN [n |-> r.n, ret |-> None]
        ELSE IF IsUtf8(r.s) THEN [n |-> r.n, ret |-> Some(r.s)]
        ELSE StringSetIterNext(set, r.n)

\* StringSet::new()
StringSetInitial ==
    /\ strset = <<>>
    /\ ssIt = NoStrList
    /\ ssYield = <<>>

\* the foreign library appends a string to the set (as FcLangSetGetLangs does
\* for each language while it builds the set it returns); a set holds no string
\* twice
StringSetFill(str) ==
    /\ ~ssIt.live
    /\ Len(strset) < MaxStrings
    /\ \A k \in 1..Len(strset) : strset[k] # str
    /\ strset' = Append(strset, str)
    /\ UNCHANGED <<ssIt, ssYield>>
    /\ UNCHANGED notStringSet

\* StringSet::iter(): StringSetIter::new
StringSetIterNew ==
    /\ ~ssIt.live
    /\ ssIt' = FcStrListCreate
    /\ ssYield' = <<>>
    /\ UNCHANGED strset
    /\ UNCHANGED notStringSet

\* next() on the StringSetIter
StringSetIterCall ==
    /\ ssIt.live
    /\ Len(ssYield) < Len(strset) + MaxExtraCalls
    /\ LET r == StringSetIterNext(strset, ssIt.n)
       IN  /\ ssIt' = [ssIt EXCEPT !.n = r.n]
           /\ ssYield' = Append(ssYield, r.ret)
    /\ UNCHANGED strset
    /\ UNCHANGED notStringSet

\* impl Drop for StringSetIter: FcStrListDone
StringSetIterDrop ==
    /\ ssIt.live
    /\ ssIt' = NoStrList
    /\ ssYield' = <<>>
    /\ UNCHANGED strset
    /\ UNCHANGED notStringSet

StringSetStep ==
    \/ \E str \in StringInputs : StringSetFill(str)
    \/ StringSetIterNew
    \/ StringSetIterCall
    \/ StringSetIterDrop

-----------------------------------------------------------------------------
(* The fc-list program: main                                                *)

\* struct Opts; pattern is "none" (no argument), "parses" or "fails" (what
\* str::parse makes of the argument), elements says whether any was given
OptsInputs ==
    [version : BOOLEAN, verbose : BOOLEAN, brief : BOOLEAN, format : BOOLEAN,
     quiet : BOOLEAN, pattern : {"none", "parses", "fails"}, elements : BOOLEAN]

NoOpts ==
    [version |-> FALSE, verbose |-> FALSE, brief |-> FALSE, format |-> FALSE,
     quiet |-> FALSE, pattern |-> "none", elements |-> FALSE]

NoListedSet == [listed |-> FALSE, nfont |-> 0, idx |-> 0]

\* what FcFontList can return: null, or a set of some fonts
FcFontListOutcomes == [null : BOOLEAN, nfont : 0..MaxFonts]

\* the status of a process whose main thread panicked
PanicExitStatus == 101

\* a mutant: the status follows the emptiness of the set in every mode
FcListExitStatusAnyMode(quiet, empty) == IF empty THEN 1 ELSE 0

\* if opts.quiet { process::exit(if fs.is_empty() { 1 } else { 0 }) }, and main
\* returns otherwise
FcListExitStatus(quiet, empty) ==
    IF quiet THEN (IF empty THEN 1 ELSE 0) ELSE 0

\* let mut os = None; ... the three places that fill it
FcListObjectSet(opts) ==
    LET os1 == IF opts.pattern # "none" /\ opts.elements THEN "elements" ELSE "none"
        os2 == IF opts.quiet /\ os1 = "none" THEN "empty" ELSE os1
    IN  IF ~opts.verbose /\ ~opts.brief /\ ~opts.format /\ os2 = "none"
        THEN "default" ELSE os2

FcListInitial ==
    /\ flOpts = NoOpts
    /\ flPc = "start"
    /\ flOs = "none"
    /\ flFs = NoListedSet
    /\ flOut = 0
    /\ flExit = -1

\* let opts = Opts::parse();
FcListParse(opts) ==
    /\ flPc = "start"
    /\ flOpts' = opts
    /\ flPc' = "parsed"
    /\ UNCHANGED <<flOs, flFs, flOut, flExit>>
    /\ UNCHANGED notFcList

\* if opts.version { println!(...); return; }
FcListVersion ==
    /\ flPc = "parsed"
    /\ flOpts.version
    /\ flPc' = "done"
    /\ flExit' = 0
    /\ UNCHANGED <<flOpts, flOs, flFs, flOut>>
    /\ UNCHANGED notFcList

\* the pattern (parse().expect(..) panics on an argument that does not parse),
\* the object set and the format string
FcListPrepare ==
    /\ flPc = "parsed"
    /\ ~flOpts.version
    /\ IF flOpts.pattern = "fails"
       THEN /\ flPc' = "done"
            /\ flExit' = PanicExitStatus
            /\ UNCHANGED flOs
       ELSE /\ flPc' = "ready"
            /\ flOs' = FcListObjectSet(flOpts)
            /\ UNCHANGED flExit
    /\ UNCHANGED <<flOpts, flFs, flOut>>
    /\ UNCHANGED notFcList

\* let mut fs = pat.font_list(&mut config, os.as_mut());
\* font_list unwraps the set FcFontList returned
FcListFontList(res) ==
    /\ flPc = "ready"
    /\ IF res.null
       THEN /\ flPc' = "done"
            /\ flExit' = PanicExitStatus
            /\ UNCHANGED flFs
       ELSE /\ flPc' = "loop"
            /\ flFs' = [listed |-> TRUE, nfont |-> res.nfont, idx |-> 0]
            /\ UNCHANGED flExit
    /\ UNCHANGED <<flOpts, flOs, flOut>>
    /\ UNCHANGED notFcList

\* one turn of  for font in fs.iter_mut()  under  !opts.quiet && !fs.is_empty():
\* font.print(), or println! of the formatted font when format() gave one
FcListPrintFont(formatted) ==
    /\ flPc = "loop"
    /\ ~flOpts.quiet /\ flFs.nfont # 0
    /\ flFs.idx < flFs.nfont
    /\ flFs' = [flFs EXCEPT !.idx = @ + 1]
    /\ flOut' = IF flOpts.verbose \/ flOpts.brief \/ formatted THEN flOut + 1 ELSE flOut
    /\ UNCHANGED <<flOpts, flPc, flOs, flExit>>
    /\ UNCHANGED notFcList

\* past the loop: process::exit in quiet mode, the end of main otherwise
FcListExit ==
    /\ flPc = "loop"
    /\ flOpts.quiet \/ flFs.idx = flFs.nfont
    /\ flPc' = "done"
    /\ flExit' = FcListExitStatus(flOpts.quiet, flFs.nfont = 0)
    /\ UNCHANGED <<flOpts, flOs, flFs, flOut>>
    /\ UNCHANGED notFcList

FcListStep ==
    \/ \E opts \in OptsInputs : FcListParse(opts)
    \/ FcListVersion
    \/ FcListPrepare
    \/ \E res \in FcFontListOutcomes : FcListFontList(res)
    \/ \E formatted \in BOOLEAN : FcListPrintFont(formatted)
    \/ FcListExit

-----------------------------------------------------------------------------
(* The fc-query program: main, and FontSet::freetype_query_all              *)

\* the file lists of up to MaxFiles files
RECURSIVE FileLists(_)
FileLists(n) ==
    IF n = 0 THEN {<<>>}
    ELSE FileLists(n - 1) \cup
         {Append(fl, q) : fl \in {l \in FileLists(n - 1) : Len(l) = n - 1}, q \in BOOLEAN}

\* struct Opts of fc-query; index is opts.index.unwrap_or(-1)
QueryOptsInputs ==
    [version : BOOLEAN, brief : BOOLEAN, format : BOOLEAN, index : {-1, 0},
     files : FileLists(MaxFiles)]

\* FontSet::freetype_query_all: its body is unimplemented!(), whatever the file
FontSetFreetypeQueryAll(queryable, index) == Panicked

FcQueryInitial ==
    /\ fqOpts = [version |-> FALSE, brief |-> FALSE, format |-> FALSE, index |-> -1,
                 files |-> <<>>]
    /\ fqPc = "start"
    /\ fqIdx = 0
    /\ fqExit = -1

\* let opts = Opts::parse();
FcQueryParse(opts) ==
    /\ fqPc = "start"
    /\ fqOpts' = opts
    /\ fqPc' = "parsed"
    /\ UNCHANGED <<fqIdx, fqExit>>
    /\ UNCHANGED notFcQuery

\* if opts.version { println!(...); return; }  else  FontSet::new() and the loop
FcQueryVersion ==
    /\ fqPc = "parsed"
    /\ IF fqOpts.version
       THEN fqPc' = "done" /\ fqExit' = 0
       ELSE fqPc' = "loop" /\ UNCHANGED fqExit
    /\ UNCHANGED <<fqOpts, fqIdx>>
    /\ UNCHANGED notFcQuery

\* one turn of  for file in opts.files: fs.freetype_query_all(&file, ..)
FcQueryFile ==
    /\ fqPc = "loop"
    /\ fqIdx < Len(fqOpts.files)
    /\ IF FontSetFreetypeQueryAll(fqOpts.files[fqIdx + 1], fqOpts.index) = Panicked
       THEN /\ fqPc' = "done"
            /\ fqExit' = PanicExitStatus
            /\ UNCHANGED fqIdx
       ELSE /\ fqIdx' = fqIdx + 1
            /\ UNCHANGED <<fqPc, fqExit>>
    /\ UNCHANGED fqOpts
    /\ UNCHANGED notFcQuery

\* the end of main, past the loop
FcQueryEnd ==
    /\ fqPc = "loop"
    /\ fqIdx = Len(fqOpts.files)
    /\ fqPc' = "done"
    /\ fqExit' = 0
    /\ UNCHANGED <<fqOpts, fqIdx>>
    /\ UNCHANGED notFcQuery

FcQueryStep ==
    \/ \E opts \in QueryOptsInputs : FcQueryParse(opts)
    \/ FcQueryVersion
    \/ FcQueryFile
    \/ FcQueryEnd

-----------------------------------------------------------------------------
(* The fc-match program: main                                               *)

\* the matched fonts, as the sets of the objects they hold
FontInputs == {{"family", "style", "charset", "lang"}, {"family", "charset"}}

\* the element lists of the command line (none, or the objects named)
ElementInputs == {{}, {"family"}, {"family", "lang"}}

\* struct Opts of fc-match; listing is opts.sort || opts.all, pattern says
\* whether a pattern argument was given
MatchOptsInputs ==
    [version : BOOLEAN, listing : BOOLEAN, verbose : BOOLEAN, brief : BOOLEAN,
     format : BOOLEAN, pattern : BOOLEAN, elements : ElementInputs]

NoObjectSet == [some |-> FALSE, objects |-> {}]

\* the font sets of up to n fonts
RECURSIVE FontLists(_)
FontLists(n) ==
    IF n = 0 THEN {<<>>}
    ELSE FontLists(n - 1) \cup
         {Append(fl, f) : fl \in {l \in FontLists(n - 1) : Len(l) = n - 1}, f \in FontInputs}

\* FcPatternFilter(p, os): a new pattern with the objects of p that are in os,
\* a duplicate of p when os is null
FcPatternFilter(p, os) == IF os.some THEN p \cap os.objects ELSE p

\* FcPatternDel(p, object)
FcPatternDel(p, object) == p \ {object}

\* one turn of the printing loop: font is the filtered pattern, brief deletes
\* charset and lang from font, and what print() and format() are called on is
\* pattern, the entry of the font set
FcMatchPrinted(pattern, os, opts) ==
    LET font == FcPatternFilter(pattern, os)
        brief == IF (opts.verbose \/ opts.brief) /\ opts.brief
                 THEN FcPatternDel(FcPatternDel(font, "charset"), "lang")
                 ELSE font
    IN  pattern

FcMatchInitial ==
    /\ fmOpts = [version |-> FALSE, listing |-> FALSE, verbose |-> FALSE, brief |-> FALSE,
                 format |-> FALSE, pattern |-> FALSE, elements |-> {}]
    /\ fmPc = "start"
    /\ fmOs = NoObjectSet
    /\ fmSet = <<>>
    /\ fmIdx = 0
    /\ fmOut = <<>>
    /\ fmExit = -1

\* let opts = Opts::parse();
FcMatchMainParse(opts) ==
    /\ fmPc = "start"
    /\ fmOpts' = opts
    /\ fmPc' = "parsed"
    /\ UNCHANGED <<fmOs, fmSet, fmIdx, fmOut, fmExit>>
    /\ UNCHANGED notFcMatch

\* the version exit, then the pattern and the object set: from_str(..).expect(..)
\* panics on a pattern the parser rejects
FcMatchMainPrepare(parses) ==
    /\ fmPc = "parsed"
    /\ IF fmOpts.version
       THEN fmPc' = "done" /\ fmExit' = 0 /\ UNCHANGED fmOs
       ELSE IF fmOpts.pattern /\ ~parses
       THEN fmPc' = "done" /\ fmExit' = PanicExitStatus /\ UNCHANGED fmOs
       ELSE /\ fmPc' = "ready"
            /\ fmOs' = IF fmOpts.pattern /\ fmOpts.elements # {}
                       THEN [some |-> TRUE, objects |-> fmOpts.elements]
                       ELSE NoObjectSet
            /\ UNCHANGED fmExit
    /\ UNCHANGED <<fmOpts, fmSet, fmIdx, fmOut>>
    /\ UNCHANGED notFcMatch

\* substitute, default_substitute, then the font set: every pattern font_sort
\* returned, or the one of font_match; panics is an assertion, expect or unwrap
\* of these calls failing
FcMatchMainFonts(panics, fonts) ==
    /\ fmPc = "ready"
    /\ fmOpts.listing \/ Len(fonts) = 1
    /\ IF panics
       THEN fmPc' = "done" /\ fmExit' = PanicExitStatus /\ UNCHANGED fmSet
       ELSE fmPc' = "loop" /\ fmSet' = fonts /\ UNCHANGED fmExit
    /\ UNCHANGED <<fmOpts, fmOs, fmIdx, fmOut>>
    /\ UNCHANGED notFcMatch

\* one turn of  for pattern in fontset.iter(); filter(..).unwrap() panics when
\* FcPatternFilter returns null
FcMatchMainPrint(filterNull) ==
    /\ fmPc = "loop"
    /\ fmIdx < Len(fmSet)
    /\ IF filterNull
       THEN fmPc' = "done" /\ fmExit' = PanicExitStatus /\ UNCHANGED <<fmIdx, fmOut>>
       ELSE /\ fmOut' = Append(fmOut, FcMatchPrinted(fmSet[fmIdx + 1], fmOs, fmOpts))
            /\ fmIdx' = fmIdx + 1
            /\ UNCHANGED <<fmPc, fmExit>>
    /\ UNCHANGED <<fmOpts, fmOs, fmSet>>
    /\ UNCHANGED notFcMatch

\* the end of main
FcMatchMainEnd ==
    /\ fmPc = "loop"
    /\ fmIdx = Len(fmSet)
    /\ fmPc' = "done"
    /\ fmExit' = 0
    /\ UNCHANGED <<fmOpts, fmOs, fmSet, fmIdx, fmOut>>
    /\ UNCHANGED notFcMatch

FcMatchStep ==
    \/ \E opts \in MatchOptsInputs : FcMatchMainParse(opts)
    \/ \E parses \in BOOLEAN : FcMatchMainPrepare(parses)
    \/ \E panics \in BOOLEAN : \E fonts \in FontLists(MaxFonts) : FcMatchMainFonts(panics, fonts)
    \/ \E filterNull \in BOOLEAN : FcMatchMainPrint(filterNull)
    \/ FcMatchMainEnd

-----------------------------------------------------------------------------
(* Iter::next pass by pass, over sets the library built                     *)

\* members of a set the library built from a font: 'a', U+007F (bit 31 of its
\* word), the surrogates U+D800 and U+DFFF, U+E000, and 0xFFFFFF (bit 31 of
\* the last word of the last page a leaf number can name)
ForeignInputs == {97, 127, 55296, 57343, 57344, 16777215}

LoopInitial == itPc = "idle"

\* the library adds a member to the set it builds
ForeignAddChar(c) ==
    /\ ~it.live
    /\ itPc = "idle"
    /\ c \notin csA.chars
    /\ Cardinality(csA.chars) < MaxSetSize
    /\ csA' = FcCharSetAddChar(csA, c)
    /\ UNCHANGED <<csB, csOp, it, yielded, itPc>>
    /\ UNCHANGED notCharSetLoop

\* iter.next() is called
LoopCall ==
    /\ it.live
    /\ itPc = "idle"
    /\ Len(yielded) < Cardinality(csA.chars) + MaxExtraCalls
    /\ itPc' = "top"
    /\ UNCHANGED csVars
    /\ UNCHANGED notCharSetLoop

\* a mutant: a zero word is not stepped over
LoopTopStuck ==
    /\ itPc = "top"
    /\ IF it.codepoint = FC_CHARSET_DONE
       THEN /\ yielded' = Append(yielded, None)
            /\ itPc' = "idle"
            /\ UNCHANGED it
       ELSE IF it.i >= FC_CHARSET_MAP_SIZE
       THEN /\ IF it.next = FC_CHARSET_DONE
               THEN it' = [it EXCEPT !.codepoint = FC_CHARSET_DONE]
               ELSE LET r == FcCharSetNextPage(csA, it.map, it.next)
                    IN  it' = [it EXCEPT !.codepoint = r.page, !.map = r.map,
                                         !.next = r.next, !.i = 0]
            /\ UNCHANGED <<yielded, itPc>>
       ELSE IF it.map[it.i] = {}
       THEN UNCHANGED <<it, yielded, itPc>>
       ELSE /\ itPc' = "scan"
            /\ UNCHANGED <<it, yielded>>
    /\ UNCHANGED <<csA, csB, csOp>>
    /\ UNCHANGED notCharSetLoop

\* one pass of  loop { .. }  up to  let mut n = bits >> self.bit;
LoopTop ==
    /\ itPc = "top"
    /\ IF it.codepoint = FC_CHARSET_DONE
       THEN \* return None
            /\ yielded' = Append(yielded, None)
            /\ itPc' = "idle"
            /\ UNCHANGED it
       ELSE IF it.i >= FC_CHARSET_MAP_SIZE
       THEN \* end of page; continue
            /\ IF it.next = FC_CHARSET_DONE
               THEN it' = [it EXCEPT !.codepoint = FC_CHARSET_DONE]
               ELSE LET r == FcCharSetNextPage(csA, it.map, it.next)
                    IN  it' = [it EXCEPT !.codepoint = r.page, !.map = r.map,
                                         !.next = r.next, !.i = 0]
            /\ UNCHANGED <<yielded, itPc>>
       ELSE IF it.map[it.i] = {}
       THEN \* bits == 0; continue
            /\ it' = [it EXCEPT !.i = @ + 1, !.bit = 0]
            /\ UNCHANGED <<yielded, itPc>>
       ELSE /\ itPc' = "scan"
            /\ UNCHANGED <<it, yielded>>
    /\ UNCHANGED <<csA, csB, csOp>>
    /\ UNCHANGED notCharSetLoop

\* a mutant: the bit index is not carried into the next word
LoopScanNoCarry ==
    /\ itPc = "scan"
    /\ LET n == Shr(it.map[it.i], it.bit % 32)
       IN  IF 0 \in n
           THEN /\ yielded' = Append(yielded, CharTryFrom(it.codepoint + 32 * it.i + it.bit))
                /\ it' = [it EXCEPT !.bit = @ + 1]
                /\ itPc' = "idle"
           ELSE IF n = {}
           THEN /\ it' = [it EXCEPT !.i = @ + 1, !.bit = 0]
                /\ itPc' = "top"
                /\ UNCHANGED yielded
           ELSE /\ it' = [it EXCEPT !.bit = @ + 1]
                /\ UNCHANGED <<yielded, itPc>>
    /\ UNCHANGED <<csA, csB, csOp>>
    /\ UNCHANGED notCharSetLoop

\* one turn of  while n & 1 == 0 { .. }  with n = bits >> self.bit, and, when
\* the bit is set, the rest of the pass: the code point, the step to the next
\* bit and  return char::try_from(codepoint).ok()
LoopScan ==
    /\ itPc = "scan"
    /\ LET n == Shr(it.map[it.i], it.bit)
       IN  IF 0 \in n
           THEN /\ yielded' = Append(yielded, CharTryFrom(it.codepoint + 32 * it.i + it.bit))
                /\ it' = IF it.bit + 1 > 31
                         THEN [it EXCEPT !.i = @ + 1, !.bit = 0]
                         ELSE [it EXCEPT !.bit = @ + 1]
                /\ itPc' = "idle"
           ELSE IF n = {}
           THEN /\ it' = [it EXCEPT !.i = @ + 1, !.bit = 0]
                /\ itPc' = "top"
                /\ UNCHANGED yielded
           ELSE IF it.bit + 1 > 31
           THEN /\ it' = [it EXCEPT !.i = @ + 1, !.bit = 0]
                /\ itPc' = "top"
                /\ UNCHANGED yielded
           ELSE IF it.i >= FC_CHARSET_MAP_SIZE
           THEN /\ it' = [it EXCEPT !.bit = @ + 1]
                /\ itPc' = "top"
                /\ UNCHANGED yielded
           ELSE /\ it' = [it EXCEPT !.bit = @ + 1]
                /\ UNCHANGED <<yielded, itPc>>
    /\ UNCHANGED <<csA, csB, csOp>>
    /\ UNCHANGED notCharSetLoop

CharSetLoopStep ==
    \/ \E c \in ForeignInputs : ForeignAddChar(c)
    \/ IterStart
    \/ LoopCall
    \/ LoopTop
    \/ LoopScan

-----------------------------------------------------------------------------
(* Specifications                                                           *)

InitAll ==
    /\ ConfigInitial
    /\ PatternInitial
    /\ CharSetInitial
    /\ LangSetInitial
    /\ FontSetInitial
    /\ ObjectSetInitial
    /\ StringSetInitial
    /\ FcListInitial
    /\ FcQueryInitial
    /\ FcMatchInitial
    /\ LoopInitial

InitConfig == InitAll
SpecConfig == InitConfig /\ [][ConfigStep]_vars

InitPattern == InitAll
SpecPattern == InitPattern /\ [][PatternStep]_vars

InitCharSet == InitAll
SpecCharSet == InitCharSet /\ [][CharSetStep]_vars

InitLangSet == InitAll
SpecLangSet == InitLangSet /\ [][LangSetStep]_vars

InitFontSet == InitAll
SpecFontSet == InitFontSet /\ [][FontSetStep]_vars

InitMutation == InitAll
SpecMutation == InitMutation /\ [][MutationStep]_vars

InitMatch == InitAll
SpecMatch == InitMatch /\ [][MatchStep]_vars

InitStringSet == InitAll
SpecStringSet == InitStringSet /\ [][StringSetStep]_vars

InitFcList == InitAll
SpecFcList == InitFcList /\ [][FcListStep]_vars

InitFcQuery == InitAll
SpecFcQuery == InitFcQuery /\ [][FcQueryStep]_vars

InitFcMatch == InitAll
SpecFcMatch == InitFcMatch /\ [][FcMatchStep]_vars

InitCharSetLoop == InitAll
SpecCharSetLoop == InitCharSetLoop /\ [][CharSetLoopStep]_vars
\* a call of next() that has started runs on: it is sequential code
SpecCharSetLoopFair ==
    InitCharSetLoop /\ [][CharSetLoopStep]_vars /\ WF_vars(LoopTop) /\ WF_vars(LoopScan)

-----------------------------------------------------------------------------
(* Claims about the configuration lifecycle, checked under SpecConfig       *)

Quiescent == ~aborted /\ \A t \in Threads : pc[t] = "idle"

\* C1: the drop that releases the last live handle invokes FcFini: a drop that
\* has decided to skip the teardown is never the drop of the only live handle.
C1_LastDropTearsDown ==
    \A t \in Threads : pc[t] = "r_nofini" => LiveHandles > 1

\* C2: FcFini is never invoked by a drop while another handle is still live: a
\* drop that has decided to tear down is dropping the only live handle.
C2_NoTeardownWhileOthersLive ==
    \A t \in Threads : pc[t] = "r_fini" => LiveHandles = 1

\* two handles are live and one is being dropped: that drop skips the teardown
C2_Witness ==
    \E t \in Threads : pc[t] = "r_nofini" /\ LiveHandles >= 2 /\ fcFiniCalls = 0

\* C3: after any sequence of completed acquisitions and drops the counter equals
\* the number of live handles.
C3_CounterIsLiveHandles ==
    Quiescent => counter = LiveHandles

\* C4 (as stated): an acquisition made while another handle is live does not
\* invoke FcInit.  At "d_inc" the acquisition has just invoked FcInit.
C4_InitOnlyByFirstAcquisition ==
    \A t \in Threads : pc[t] = "d_inc" => LiveHandles = 0

\* C4 (amended): every acquisition that obtains the lock invokes FcInit exactly
\* once, whether or not another handle is live: the number of FcInit invocations
\* is the number of acquisitions that completed, failed or are past the call.
C4_InitOnEveryAcquisition ==
    fcInitCalls = acquired + initFailed
                  + Cardinality({t \in Threads : pc[t] = "d_inc"})

\* a second acquisition has invoked FcInit while another handle is live
C4_Witness ==
    \E t \in Threads : pc[t] = "d_inc" /\ LiveHandles >= 1 /\ fcInitCalls >= 2

\* C5: every counter update and every FcInit / FcFini call is made by the thread
\* that holds the mutex, so no two threads are in these sections at once, and no
\* increment is lost: with no drop started, the counter is the number of
\* completed acquisitions.
C5_MutualExclusion ==
    /\ \A t \in Threads : pc[t] \in CriticalPcs => mutexHolder = t
    /\ drops = 0 => counter = acquired

\* one thread is inside a guarded section while another waits for the lock,
\* after an earlier acquisition completed
C5_Witness ==
    \E t, u \in Threads :
        /\ t # u
        /\ pc[t] \in CriticalPcs
        /\ pc[u] \in {"d_lock", "r_lock"}
        /\ acquired >= 1

-----------------------------------------------------------------------------
(* Claims about result translation and patterns, checked under SpecPattern  *)

ErrorOf(code) ==
    CASE code = FcResultNoMatch -> "NoMatch"
      [] code = FcResultTypeMismatch -> "TypeMismatch"
      [] code = FcResultNoId -> "NoId"
      [] code = FcResultOutOfMemory -> "OutOfMemory"
      [] OTHER -> "none"

\* C6: ok() is defined for every foreign result code: Match gives Ok, and
\* NoMatch, TypeMismatch, NoId and OutOfMemory each give their own error value.
C6_OkCoversEveryCode ==
    patOp.op = "ok" =>
        IF patOp.code = FcResultMatch
        THEN patOp.ret.tag = "Ok"
        ELSE patOp.ret.tag = "Err" /\ patOp.ret.err = ErrorOf(patOp.code)

-----------------------------------------------------------------------------
(* Claims about character sets                                              *)

\* the members of a set in ascending order
RECURSIVE Ascending(_)
Ascending(S) ==
    IF S = {} THEN <<>>
    ELSE LET m == CHOOSE x \in S : \A y \in S : x <= y
         IN  <<m>> \o Ascending(S \ {m})

\* C9: the calls of next() on an iterator over a set return its members, each
\* once, in ascending code-point order, and None from then on; members in
\* different words and different pages are all returned, and the iterator
\* over an empty set returns None at once.
C9_IterYieldsMembersAscending ==
    it.live =>
        LET members == Ascending(csA.chars)
        IN  \A k \in 1..Len(yielded) :
                yielded[k] = IF k <= Len(members) THEN Some(members[k]) ELSE None

\* three members in three words of two pages were returned, then None
C9_Witness ==
    /\ it.live
    /\ csA.chars = {127, 128, 256}
    /\ yielded = <<Some(127), Some(128), Some(256), None>>

\* C10: for two sets A and B, intersect returns exactly the chars in both,
\* subtract exactly the chars of the receiver that are not in the argument,
\* union exactly the chars in either.
C10_SetAlgebra ==
    csOp.op # "none" =>
        LET self == IF csOp.selfIsA THEN csA ELSE csB
            other == IF csOp.selfIsA THEN csB ELSE csA
        IN  \A c \in CharInputs \cup OtherInputs :
                FcCharSetHasChar(csOp.res, c) <=>
                    CASE csOp.op = "intersect" ->
                            FcCharSetHasChar(self, c) /\ FcCharSetHasChar(other, c)
                      [] csOp.op = "subtract" ->
                            FcCharSetHasChar(self, c) /\ ~FcCharSetHasChar(other, c)
                      [] csOp.op = "union" ->
                            FcCharSetHasChar(self, c) \/ FcCharSetHasChar(other, c)

\* {a, U+0080} minus {a, b} is {U+0080}
C10_Witness ==
    /\ csOp.op = "subtract"
    /\ csOp.selfIsA
    /\ csA.chars = {97, 128}
    /\ csB.chars = {97, 98}
    /\ csOp.res.chars = {128}

-----------------------------------------------------------------------------
(* Claims about language sets, checked under SpecLangSet                    *)

\* the language of a tag: its bytes before the first '-'
RECURSIVE LanguageOf(_)
LanguageOf(tag) ==
    IF tag = <<>> \/ Head(tag) = 45 THEN <<>>
    ELSE <<Head(tag)>> \o LanguageOf(Tail(tag))

\* C11: cmp returns Equal when the two sets share a language-and-territory
\* pair, DifferentTerritory when they share a language but only for different
\* territories, DifferentLang when they share no language.
C11_CmpClassifies ==
    lsOp.op = "cmp" =>
        LET self == IF lsOp.selfIsA THEN lsA ELSE lsB
            other == IF lsOp.selfIsA THEN lsB ELSE lsA
            sharePair == self \cap other # {}
            shareLang == \E a \in self, b \in other : LanguageOf(a) = LanguageOf(b)
        IN  lsOp.ret = IF sharePair THEN "Equal"
                       ELSE IF shareLang THEN "DifferentTerritory"
                       ELSE "DifferentLang"

\* {en-US} compared with {en-UK} gave DifferentTerritory
C11_Witness ==
    /\ lsOp.op = "cmp"
    /\ lsOp.selfIsA
    /\ lsA = {<<101, 110, 45, 85, 83>>}
    /\ lsB = {<<101, 110, 45, 85, 75>>}
    /\ lsOp.ret = "DifferentTerritory"

\* C12: contains is the subset test on the pushed tags: A.contains(B) is true
\* exactly when every tag of B is in A.
C12_ContainsIsSubset ==
    lsOp.op = "contains" =>
        LET self == IF lsOp.selfIsA THEN lsA ELSE lsB
            rhs == IF lsOp.selfIsA THEN lsB ELSE lsA
        IN  lsOp.ret = (rhs \subseteq self)

\* a tag without its territory
SameOrNoTerritory(a, b) ==
    \/ a = b
    \/ a = LanguageOf(a) /\ a = LanguageOf(b)
    \/ b = LanguageOf(b) /\ b = LanguageOf(a)

\* C12 (amended): A.contains(B) is true exactly when every tag of B has a tag
\* of A that is the same tag or differs from it only in that one of the two
\* has no territory.
C12_ContainsUpToTerritory ==
    lsOp.op = "contains" =>
        LET self == IF lsOp.selfIsA THEN lsA ELSE lsB
            rhs == IF lsOp.selfIsA THEN lsB ELSE lsA
        IN  lsOp.ret = (\A b \in rhs : \E a \in self : SameOrNoTerritory(a, b))

\* {en-US} contains {en}, which is not a subset of it
C12_Witness ==
    /\ lsOp.op = "contains"
    /\ lsOp.selfIsA
    /\ lsA = {<<101, 110, 45, 85, 83>>}
    /\ lsB = {<<101, 110>>}
    /\ lsOp.ret = TRUE

-----------------------------------------------------------------------------
(* Claims about font sets, checked under SpecFontSet                        *)

\* C13: after n pushes onto a new FontSet, len() is n and every pass of iter()
\* or iter_mut() yields exactly the n pushed patterns in push order, then None;
\* iterating leaves the set as it was, so every pass yields the same.
C13_LenAndIterFollowPushes ==
    /\ fsOp.op = "len" => fsOp.ret = Len(pushedSeq)
    /\ fsIt.kind # "none" =>
         /\ fontset.fonts = pushedSeq
         /\ \A k \in 1..Len(fsYield) :
               fsYield[k] = IF k <= Len(pushedSeq) THEN Some(pushedSeq[k]) ELSE None

\* the second pass over a set of two pushed patterns yielded both, then None
C13_Witness ==
    /\ fsPasses = 2
    /\ Len(pushedSeq) = 2
    /\ fsYield = <<Some(pushedSeq[1]), Some(pushedSeq[2]), None>>

\* C14: every pattern reference the caller can still use refers into a font
\* set that is still alive.
C14_RefsOnlyIntoLiveSet ==
    fsRefs # {} => fontset.state = "alive"

\* C15: no foreign pattern handle is destroyed more than once; a pushed
\* pattern is released by the destruction of its set only.
C15_NoDoubleDestroy ==
    /\ \A h \in PatternHandles : fsDestroys[h] <= 1
    /\ fontset.state = "alive" =>
         \A k \in 1..Len(pushedSeq) : fsDestroys[pushedSeq[k]] = 0

\* a set with a pushed pattern was destroyed, and an owned pattern was dropped
C15_Witness ==
    /\ fontset.state = "dropped"
    /\ pushedSeq # <<>>
    /\ fsDestroys[pushedSeq[1]] = 1
    /\ \E h \in PatternHandles :
         h \notin {pushedSeq[k] : k \in 1..Len(pushedSeq)} /\ fsDestroys[h] = 1

-----------------------------------------------------------------------------
(* Claims about failed mutating calls, checked under SpecMutation           *)

\* the calls whose foreign flag is asserted: substitute, ObjectSet::add,
\* add_char / del_char / merge and FontSet::push panic exactly on a failure flag
AssertingCallsPanicOnFailure ==
    /\ patOp.op = "substitute" => (patOp.ret = Panicked <=> patOp.flag # FcTrue)
    /\ osOp.op = "add" => (osOp.ret = "panic" <=> osOp.flag # FcTrue)
    /\ (csOp.op = "none" /\ csOp.call # "new") =>
         (csOp.ret = "panic" <=> csOp.flag # FcTrue)
    /\ fsOp.op = "push" => (fsOp.ret = "panic" <=> fsOp.flag # FcTrue)

-----------------------------------------------------------------------------
(* Claims about matching and parsing, checked under SpecMatch               *)

\* C17: font_match, font_sort and match_ hand a non-Match foreign result to
\* the caller as the corresponding typed error value; none of them panics on
\* such a result.
C17_NonMatchIsTypedError ==
    (/\ fsOp.op \in {"font_match", "font_sort", "match_"}
     /\ fsOp.res # FcResultMatch
     /\ fsOp.op = "match_" => fsOp.substFlag = FcTrue)
        => fsOp.ret = Err(ErrorOf(fsOp.res))

-----------------------------------------------------------------------------
(* Claims about string sets, checked under SpecStringSet                    *)

\* the entries of a sequence that are valid UTF-8, in their order
RECURSIVE Utf8Entries(_)
Utf8Entries(set) ==
    IF set = <<>> THEN <<>>
    ELSE IF \A i \in 1..Len(Head(set)) : Head(set)[i] < 128
    THEN <<Head(set)>> \o Utf8Entries(Tail(set))
    ELSE Utf8Entries(Tail(set))

\* C19: the calls of next() on a StringSetIter return, in the cursor's order,
\* exactly the entries that are valid UTF-8; an entry that is not is skipped
\* without ending the iteration, and None comes only once the cursor is
\* exhausted (at the first call for an empty set).
C19_IterYieldsUtf8Entries ==
    ssIt.live =>
        LET valid == Utf8Entries(strset)
        IN  /\ \A k \in 1..Len(ssYield) :
                  ssYield[k] = IF k <= Len(valid) THEN Some(valid[k]) ELSE None
            /\ (ssYield # <<>> /\ ssYield[Len(ssYield)] = None) => ssIt.n = Len(strset)

\* "en", then a string that is not UTF-8, then "ja": both names came, then None
C19_Witness ==
    /\ ssIt.live
    /\ strset = <<<<101, 110>>, <<255>>, <<106, 97>>>>
    /\ ssYield = <<Some(<<101, 110>>), Some(<<106, 97>>), None>>

-----------------------------------------------------------------------------
(* Claims about the fc-list program, checked under SpecFcList               *)

\* C20: when fc-list has listed a font set (its pattern argument, if any,
\* parsed), it exits with status 1 exactly when it ran in quiet mode and the
\* set is empty, and with status 0 in every other case; in quiet mode it has
\* printed no font.
C20_ExitStatus ==
    (flPc = "done" /\ flFs.listed /\ flOpts.pattern # "fails") =>
        /\ (flExit = 1) <=> (flOpts.quiet /\ flFs.nfont = 0)
        /\ (flExit # 1) => (flExit = 0)
        /\ flOpts.quiet => flOut = 0

\* a quiet run with a pattern that parsed and no font listed has ended with 1
C20_Witness ==
    /\ flPc = "done"
    /\ flOpts.quiet /\ flOpts.pattern = "parses"
    /\ flFs.listed /\ flFs.nfont = 0
    /\ flExit = 1

-----------------------------------------------------------------------------
(* Claims about the fc-query program, checked under SpecFcQuery             *)

\* C21: a run of fc-query over files of which one cannot be queried skips that
\* file: when it has ended it has got past every file and its status is 0.
C21_FailedQuerySkipped ==
    (/\ fqPc = "done"
     /\ ~fqOpts.version
     /\ \E i \in 1..Len(fqOpts.files) : ~fqOpts.files[i]) =>
        /\ fqIdx = Len(fqOpts.files)
        /\ fqExit = 0

-----------------------------------------------------------------------------
(* Claims about the effects of the set algebra, checked under SpecCharSet   *)

-----------------------------------------------------------------------------
(* Claims about the fc-match program, checked under SpecFcMatch             *)

\* C23: each pattern fc-match has printed is the matched font restricted to
\* the requested elements (when elements were given), without its charset and
\* lang objects when --brief was given.
C23_PrintedIsFilteredAndBrief ==
    \A k \in 1..Len(fmOut) :
        LET restricted == IF fmOs.some THEN fmSet[k] \cap fmOs.objects ELSE fmSet[k]
        IN  fmOut[k] = IF fmOpts.brief THEN restricted \ {"charset", "lang"}
                       ELSE restricted

-----------------------------------------------------------------------------
(* Further claims about the configuration lifecycle, checked under SpecConfig *)

\* C24: whenever a drop reads the counter for its checked subtraction, the
\* counter is at least 1 (and at least the number of live handles), so the
\* subtraction never underflows.
C24_DropNeverUnderflows ==
    \A t \in Threads :
        pc[t] = "r_check" => (counter >= 1 /\ counter >= LiveHandles)

\* a second drop is at its subtraction after an earlier drop completed
C24_Witness ==
    \E t \in Threads : pc[t] = "r_check" /\ drops >= 2 /\ acquired >= 2

\* C25: an acquisition in which FcInit fails leaves the shared state as it
\* was: the counter still counts the completed acquisitions, and no other
\* acquisition or drop fails on the lock, so the only threads that have
\* panicked are those whose own FcInit failed.
C25_FailedInitLeavesStateIntact ==
    /\ counter = acquired
    /\ Cardinality({t \in Threads : pc[t] = "panicked"}) <= initFailed

-----------------------------------------------------------------------------
(* Further claims about patterns, checked under SpecPattern                 *)

\* C26: charset() returns None when the foreign get does not report Match (the
\* pattern has no charset attribute), and when it returns Some the get reported
\* Match and the set returned is the one stored in the pattern.
C26_CharsetNoneWithoutAttribute ==
    patOp.op = "charset" =>
        /\ (patOp.code # FcResultMatch) => patOp.ret = None
        /\ (patOp.ret.tag = "Some") =>
               /\ patOp.code = FcResultMatch
               /\ patOp.stored
               /\ patOp.ret.v = pat["charset"][1].v

\* C27: get(attr, index) returns None whenever index is not smaller than the
\* number of values stored under attr, for every index a usize can hold.
C27_GetBeyondCountIsNone ==
    (/\ patOp.op = "get"
     /\ (patOp.index.hi31 > 0 \/ patOp.index.lo31 >= Len(pat[patOp.attr]))) =>
        patOp.ret = None

-----------------------------------------------------------------------------
(* Claims about the iterator's loop, checked under SpecCharSetLoop          *)

\* C28: over any set the library can supply, surrogate members included, the
\* iterator returns None only when every member has been returned before, and
\* once it has returned None every later call returns None.
C28_NoneOnlyAtEnd ==
    (it.live /\ itPc = "idle") =>
        \A k \in 1..Len(yielded) :
            yielded[k] = None =>
                /\ k > Cardinality(csA.chars)
                /\ \A j \in k..Len(yielded) : yielded[j] = None

\* C29: every call of next() terminates, and a page the loop loads lies after
\* the page it had.
C29_NextTerminates ==
    /\ (itPc # "idle") ~> (itPc = "idle")
    /\ [][(/\ it.live /\ it'.live
           /\ it.codepoint # FC_CHARSET_DONE /\ it'.codepoint # FC_CHARSET_DONE
           /\ it'.codepoint # it.codepoint) => it'.codepoint > it.codepoint]_vars

\* a call over a set of three pages has returned None after the three members
C29_Witness ==
    /\ it.live /\ itPc = "idle"
    /\ csA.chars = {97, 57344, 16777215}
    /\ yielded = <<Some(97), Some(57344), None, None>>

\* C30: in every state of a live iterator the word index is in 0..8 and the bit
\* index in 0..31; inside the while loop, where the map is read and shifted,
\* the word index is below 8, the page base is a multiple of 256 and the offset
\* 32 * i + bit is at most 255, so the code point stays within 32 bits; and a
\* step that changes the word index or enters a page leaves the bit index 0.
C30_IndexesInRange ==
    /\ [](it.live =>
            /\ it.i \in 0..FC_CHARSET_MAP_SIZE
            /\ it.bit \in 0..31
            /\ (itPc = "scan") =>
                   /\ it.i < FC_CHARSET_MAP_SIZE
                   /\ it.codepoint # FC_CHARSET_DONE
                   /\ it.codepoint % 256 = 0
                   /\ 32 * it.i + it.bit <= 255)
    /\ [][(it.live /\ it'.live) =>
             /\ (it'.i # it.i) => it'.bit = 0
             /\ (it'.codepoint # it.codepoint /\ it'.codepoint # FC_CHARSET_DONE) =>
                    (it'.i = 0 /\ it'.bit = 0)]_vars

\* the while loop is at bit 31 of the last word of a page
C30_Witness ==
    /\ it.live /\ itPc = "scan"
    /\ it.i = FC_CHARSET_MAP_SIZE - 1
    /\ it.bit = 31

====
